---- MODULE Spec2Model ----
(***************************************************************************)
(* Backtest consumer of Artemis: pkg/backtest (Backtester.Run, the day     *)
(* loop), pkg/engine (Engine.Run and the buy / dip-buy / sell steps) and   *)
(* pkg/brokerage (BacktestBrokerage, the in-memory ledger).                *)
(*                                                                         *)
(* Numbers.  The code computes with shopspring decimal.Decimal: Add, Sub   *)
(* and Mul are exact, Div rounds the quotient half away from zero to       *)
(* DivisionPrecision digits after the point.  A decimal is modelled as the *)
(* integer number of 10^-MaxExp it holds (fixed point); MaxExp is three    *)
(* times DivisionPrecision because the longest chain of the code is        *)
(* fraction (Div) x account value (shares (Div) x average price (Div)).    *)
(* The library divides to 16 digits; the model keeps DivisionPrecision     *)
(* digits so that every value fits TLC's 32-bit integers.  Percentages are *)
(* multiples of 10 so that x/100 is exact, as it is for any percentage of  *)
(* up to 14 decimals in the library.                                       *)
(*                                                                         *)
(* Dates are day numbers; day d falls on weekday d % 7 (0 = Sunday).       *)
(***************************************************************************)
EXTENDS Integers, Sequences, FiniteSets, TLC

VARIABLES
    signals,      \* Backtester.signals / Engine.signals: id -> Signal
    balance,      \* BacktestBrokerage.balance (cash)
    positions,    \* BacktestBrokerage.positions: ticker -> Position or NoPosition
    currentDate,  \* the date of the day loop / Engine.currentDate
    tickerData,   \* Engine.tickerData: ticker -> TickerQuote or NoQuote
    order,        \* ids the range loop of Engine.Run has still to visit
    pc,           \* "day": between two days; "run": inside Engine.Run; "done"
    lastOp,       \* what the last loop iteration of Engine.Run did (its log line)
    deposits,     \* initial balance plus every AddDeposit so far
    external,     \* number of orders placed on the ledger by callers other than the engine
    call,         \* the last call of a method of BacktestBrokerage made by a direct caller
    procs,        \* goroutines calling the ledger: goroutine -> its position and locals
    mu,           \* BacktestBrokerage.mu: the writer and the readers holding it
    replay,       \* a trailing-stop replay of the strategy comparison: its arguments and result
    bot           \* the live trading bot: its stored signals, allocation window and orders

vars == <<signals, balance, positions, currentDate, tickerData, order, pc, lastOp,
          deposits, external, call, procs, mu, replay, bot>>

\* the state of the callers the backtest does not run
others == <<call, procs, mu, replay, bot>>

----------------------------------------------------------------------------
(* decimal.Decimal *)

DivisionPrecision == 1

RECURSIVE Pow10(_)
Pow10(n) == IF n = 0 THEN 1 ELSE 10 * Pow10(n - 1)

MaxExp == 3 * DivisionPrecision

\* decimal.NewFromInt
NewFromInt(n) == n * Pow10(MaxExp)

Abs(a) == IF a < 0 THEN -a ELSE a

\* <<mantissa, number of trailing zeros removed>>
RECURSIVE Strip(_, _)
Strip(m, z) ==
    IF m # 0 /\ z < MaxExp /\ m % 10 = 0 THEN Strip(m \div 10, z + 1) ELSE <<m, z>>

\* Decimal.Mul: the exact product
Mul(a, b) ==
    LET sa == Strip(a, 0)
        sb == Strip(b, 0)
        z  == sa[2] + sb[2]
        m  == sa[1] * sb[1]
    IN  IF z >= MaxExp THEN m * Pow10(z - MaxExp) ELSE m \div Pow10(MaxExp - z)

\* Decimal.Div: DivRound(b, DivisionPrecision), half away from zero; panics on b = 0
Div(a, b) ==
    LET n  == Abs(a) * Pow10(DivisionPrecision)
        d  == Abs(b)
        q  == n \div d
        r  == n % d
        qq == IF 2 * r >= d THEN q + 1 ELSE q
        s  == IF (a < 0) # (b < 0) THEN -1 ELSE 1
    IN  s * qq * Pow10(MaxExp - DivisionPrecision)

----------------------------------------------------------------------------
(* pkg/signals *)

StatusPending == "PENDING"
StatusActive  == "ACTIVE"
StatusSold    == "SOLD"

ZeroTime == -1            \* time.Time{}
NilTrade == [nil |-> TRUE]

NewSignal(ticker, buy, sell, pct) ==
    [ Ticker               |-> ticker,
      BuyDateTime          |-> buy,
      SellDateTime         |-> sell,
      AllocationPercentage |-> NewFromInt(pct),
      Status               |-> StatusPending,
      InitialTrade         |-> NilTrade,
      DipTrades            |-> <<>>,
      HighPrice            |-> 0 ]

\* the Trade literal of ExecuteBuy / ExecuteDipBuy: the sell leg is zero
NewTrade(date, price, cost, quantity) ==
    [ BuyDateTime  |-> date,
      SellDateTime |-> ZeroTime,
      BuyPrice     |-> price,
      SellPrice    |-> 0,
      Cost         |-> cost,
      Proceeds     |-> 0,
      ProfitLoss   |-> 0,
      Quantity     |-> quantity ]

----------------------------------------------------------------------------
(* pkg/brokerage: BacktestBrokerage *)

NoPosition == [none |-> TRUE]
NoQuote    == [none |-> TRUE]

RECURSIVE SumOver(_, _)
SumOver(f, S) ==
    IF S = {} THEN 0
    ELSE LET x == CHOOSE y \in S : TRUE IN f[x] + SumOver(f, S \ {x})

\* an account value that forgets the positions
GetAccountValueCashOnly(bal, pos) == bal

\* GetAccountValue: cash plus every position at its average buy price
GetAccountValue(bal, pos) ==
    bal + SumOver([t \in DOMAIN pos |->
                      IF pos[t] = NoPosition THEN 0
                      ELSE Mul(pos[t].Shares, pos[t].AvgBuyPrice)],
                  DOMAIN pos)

\* GetPosition: <<shares, error>>
GetPosition(pos, symbol) ==
    IF pos[symbol] = NoPosition THEN [err |-> "no position found", shares |-> 0]
    ELSE [err |-> "", shares |-> pos[symbol].Shares]

\* a buy that takes the cash before it finds the cash short
ExecuteBuyOrderDebitsFirst(bal, pos, symbol, quantity, limitPrice) ==
    LET totalCost == Mul(quantity, limitPrice) IN
    IF bal < totalCost
    THEN [err |-> "insufficient funds", balance |-> bal - totalCost, positions |-> pos]
    ELSE [ err       |-> "",
           balance   |-> bal - totalCost,
           positions |->
             IF pos[symbol] # NoPosition
             THEN LET totalShares == pos[symbol].Shares + quantity
                      totalValue  == Mul(pos[symbol].Shares, pos[symbol].AvgBuyPrice)
                                       + Mul(quantity, limitPrice)
                  IN  [pos EXCEPT ![symbol] =
                          [Shares |-> totalShares, AvgBuyPrice |-> Div(totalValue, totalShares)]]
             ELSE [pos EXCEPT ![symbol] = [Shares |-> quantity, AvgBuyPrice |-> limitPrice]] ]

\* a buy that asks for more cash than the order costs
ExecuteBuyOrderStrict(bal, pos, symbol, quantity, limitPrice) ==
    LET totalCost == Mul(quantity, limitPrice) IN
    IF bal <= totalCost
    THEN [err |-> "insufficient funds", balance |-> bal, positions |-> pos]
    ELSE [ err       |-> "",
           balance   |-> bal - totalCost,
           positions |->
             IF pos[symbol] # NoPosition
             THEN LET totalShares == pos[symbol].Shares + quantity
                      totalValue  == Mul(pos[symbol].Shares, pos[symbol].AvgBuyPrice)
                                       + Mul(quantity, limitPrice)
                  IN  [pos EXCEPT ![symbol] =
                          [Shares |-> totalShares, AvgBuyPrice |-> Div(totalValue, totalShares)]]
             ELSE [pos EXCEPT ![symbol] = [Shares |-> quantity, AvgBuyPrice |-> limitPrice]] ]

\* ExecuteBuyOrder: the ledger after the call, and its error
ExecuteBuyOrder(bal, pos, symbol, quantity, limitPrice) ==
    LET totalCost == Mul(quantity, limitPrice) IN
    IF bal < totalCost
    THEN [err |-> "insufficient funds", balance |-> bal, positions |-> pos]
    ELSE [ err       |-> "",
           balance   |-> bal - totalCost,
           positions |->
             IF pos[symbol] # NoPosition
             THEN LET totalShares == pos[symbol].Shares + quantity
                      totalValue  == Mul(pos[symbol].Shares, pos[symbol].AvgBuyPrice)
                                       + Mul(quantity, limitPrice)
                  IN  [pos EXCEPT ![symbol] =
                          [Shares |-> totalShares, AvgBuyPrice |-> Div(totalValue, totalShares)]]
             ELSE [pos EXCEPT ![symbol] = [Shares |-> quantity, AvgBuyPrice |-> limitPrice]] ]

\* a sell that never compares the quantity with the shares held
ExecuteSellOrderAnyShares(bal, pos, symbol, quantity, limitPrice) ==
    IF pos[symbol] = NoPosition
    THEN [err |-> "no position found", balance |-> bal, positions |-> pos]
    ELSE [ err       |-> "",
           balance   |-> bal + Mul(quantity, limitPrice),
           positions |->
             IF pos[symbol].Shares - quantity = 0
             THEN [pos EXCEPT ![symbol] = NoPosition]
             ELSE [pos EXCEPT ![symbol].Shares = pos[symbol].Shares - quantity] ]

\* a sell that keeps the entry of a position it has emptied
ExecuteSellOrderKeepsPosition(bal, pos, symbol, quantity, limitPrice) ==
    IF pos[symbol] = NoPosition
    THEN [err |-> "no position found", balance |-> bal, positions |-> pos]
    ELSE IF pos[symbol].Shares < quantity
    THEN [err |-> "insufficient shares", balance |-> bal, positions |-> pos]
    ELSE [err |-> "", balance |-> bal + Mul(quantity, limitPrice),
          positions |-> [pos EXCEPT ![symbol].Shares = @ - quantity]]

\* ExecuteSellOrder: the ledger after the call, and its error
ExecuteSellOrder(bal, pos, symbol, quantity, limitPrice) ==
    IF pos[symbol] = NoPosition
    THEN [err |-> "no position found", balance |-> bal, positions |-> pos]
    ELSE IF pos[symbol].Shares < quantity
    THEN [err |-> "insufficient shares", balance |-> bal, positions |-> pos]
    ELSE [ err       |-> "",
           balance   |-> bal + Mul(quantity, limitPrice),
           positions |->
             IF pos[symbol].Shares - quantity = 0
             THEN [pos EXCEPT ![symbol] = NoPosition]
             ELSE [pos EXCEPT ![symbol].Shares = pos[symbol].Shares - quantity] ]

\* AddDeposit: the cash after the call
AddDeposit(bal, amount) == bal + amount

----------------------------------------------------------------------------
(* pkg/engine *)

Live(sigs) ==
    {i \in DOMAIN sigs : sigs[i].Status = StatusPending \/ sigs[i].Status = StatusActive}

\* an allocation that never renormalizes
WeightedAllocationAbsolute(pct, totalPercentage, accountValue) ==
    Mul(Div(pct, NewFromInt(100)), accountValue)

\* the two branches on totalPercentage of CalculateAllocationAmount
WeightedAllocation(pct, totalPercentage, accountValue) ==
    IF totalPercentage <= NewFromInt(100)
    THEN Mul(Div(pct, NewFromInt(100)), accountValue)
    ELSE Mul(Div(Mul(Div(pct, totalPercentage), NewFromInt(100)), NewFromInt(100)),
             accountValue)

TotalPercentage(sigs) ==
    SumOver([i \in DOMAIN sigs |-> sigs[i].AllocationPercentage], Live(sigs))

\* an allocation without the branch for dip buys
CalculateAllocationAmountWeighted(sigs, bal, pos, date, id) ==
    WeightedAllocation(sigs[id].AllocationPercentage, TotalPercentage(sigs),
                       GetAccountValue(bal, pos))

CalculateAllocationAmount(sigs, bal, pos, date, id) ==
    IF /\ sigs[id].Status = StatusActive
       /\ sigs[id].InitialTrade # NilTrade
       /\ date > sigs[id].InitialTrade.BuyDateTime
    THEN sigs[id].InitialTrade.Cost
    ELSE WeightedAllocation(sigs[id].AllocationPercentage, TotalPercentage(sigs),
                            GetAccountValue(bal, pos))

RECURSIVE SumQuantity(_)
SumQuantity(trades) ==
    IF trades = <<>> THEN 0 ELSE Head(trades).Quantity + SumQuantity(Tail(trades))

\* a sell that forgets the dip lots
TotalQuantityInitialOnly(signal) == signal.InitialTrade.Quantity

\* totalQuantity of ExecuteSell
TotalQuantity(signal) == signal.InitialTrade.Quantity + SumQuantity(signal.DipTrades)

\* an initial buy that folds the price of the tick into HighPrice at once
ExecuteBuyFoldsHigh(sigs, bal, pos, td, date, id) ==
    LET tickerPrice      == td[sigs[id].Ticker].Price
        allocationAmount == CalculateAllocationAmount(sigs, bal, pos, date, id)
        quantity         == Div(allocationAmount, tickerPrice)
        r == ExecuteBuyOrder(bal, pos, sigs[id].Ticker, quantity, tickerPrice)
    IN  IF r.err # ""
        THEN [err |-> r.err, signals |-> sigs, balance |-> r.balance,
              positions |-> r.positions]
        ELSE [ err       |-> "",
               signals   |-> [sigs EXCEPT
                                ![id].Status = StatusActive,
                                ![id].HighPrice = IF tickerPrice > @ THEN tickerPrice ELSE @,
                                ![id].InitialTrade =
                                    NewTrade(date, tickerPrice, allocationAmount, quantity)],
               balance   |-> r.balance,
               positions |-> r.positions ]

ExecuteBuy(sigs, bal, pos, td, date, id) ==
    LET tickerPrice      == td[sigs[id].Ticker].Price
        allocationAmount == CalculateAllocationAmount(sigs, bal, pos, date, id)
        quantity         == Div(allocationAmount, tickerPrice)
        r == ExecuteBuyOrder(bal, pos, sigs[id].Ticker, quantity, tickerPrice)
    IN  IF r.err # ""
        THEN [err |-> r.err, signals |-> sigs, balance |-> r.balance,
              positions |-> r.positions]
        ELSE [ err       |-> "",
               signals   |-> [sigs EXCEPT
                                ![id].Status = StatusActive,
                                ![id].InitialTrade =
                                    NewTrade(date, tickerPrice, allocationAmount, quantity)],
               balance   |-> r.balance,
               positions |-> r.positions ]

ExecuteDipBuy(sigs, bal, pos, td, date, id) ==
    LET tickerPrice      == td[sigs[id].Ticker].Price
        allocationAmount == CalculateAllocationAmount(sigs, bal, pos, date, id)
        quantity         == Div(allocationAmount, tickerPrice)
        r == ExecuteBuyOrder(bal, pos, sigs[id].Ticker, quantity, tickerPrice)
    IN  IF r.err # ""
        THEN [err |-> r.err, signals |-> sigs, balance |-> r.balance,
              positions |-> r.positions]
        ELSE [ err       |-> "",
               signals   |-> [sigs EXCEPT
                                ![id].DipTrades =
                                    Append(@, NewTrade(date, tickerPrice, allocationAmount,
                                                       quantity))],
               balance   |-> r.balance,
               positions |-> r.positions ]

\* the sell leg written into one trade by ExecuteSell
CloseTrade(trade, date, tickerPrice) ==
    [trade EXCEPT !.SellDateTime = date,
                  !.SellPrice    = tickerPrice,
                  !.Proceeds     = Mul(trade.Quantity, tickerPrice),
                  !.ProfitLoss   = Mul(trade.Quantity, tickerPrice) - trade.Cost]

\* a sell that validates nothing and ignores the ledger's error
ExecuteSellUnchecked(sigs, bal, pos, td, date, id) ==
    LET signal      == sigs[id]
        tickerPrice == td[signal.Ticker].Price
        r == ExecuteSellOrder(bal, pos, signal.Ticker, TotalQuantity(signal), tickerPrice)
    IN  [ err       |-> r.err,
          signals   |-> [sigs EXCEPT
                           ![id].InitialTrade = CloseTrade(@, date, tickerPrice),
                           ![id].DipTrades =
                               [k \in DOMAIN @ |-> CloseTrade(@[k], date, tickerPrice)],
                           ![id].Status = StatusSold],
          balance   |-> r.balance,
          positions |-> r.positions ]

ExecuteSell(sigs, bal, pos, td, date, id) ==
    LET signal        == sigs[id]
        tickerPrice   == td[signal.Ticker].Price
        totalQuantity == TotalQuantity(signal)
        held          == GetPosition(pos, signal.Ticker)
        r == ExecuteSellOrder(bal, pos, signal.Ticker, totalQuantity, tickerPrice)
        fail(e) == [err |-> e, signals |-> sigs, balance |-> bal, positions |-> pos]
    IN  IF totalQuantity = 0 THEN fail("no shares to sell")
        ELSE IF held.err # "" THEN fail("position not found in account")
        ELSE IF held.shares < totalQuantity THEN fail("insufficient shares in account")
        ELSE IF r.err # ""
        THEN [err |-> r.err, signals |-> sigs, balance |-> r.balance,
              positions |-> r.positions]
        ELSE [ err       |-> "",
               signals   |-> [sigs EXCEPT
                                ![id].InitialTrade = CloseTrade(@, date, tickerPrice),
                                ![id].DipTrades =
                                    [k \in DOMAIN @ |-> CloseTrade(@[k], date, tickerPrice)],
                                ![id].Status = StatusSold],
               balance   |-> r.balance,
               positions |-> r.positions ]

RECURSIVE LatestBuy(_, _)
LatestBuy(trades, last) ==
    IF trades = <<>> THEN last
    ELSE LatestBuy(Tail(trades),
                   IF Head(trades).BuyDateTime > last THEN Head(trades).BuyDateTime ELSE last)

\* a lastBuyDate that never looks at the dip trades
LastBuyDateInitial(signal) ==
    IF signal.InitialTrade # NilTrade THEN signal.InitialTrade.BuyDateTime
    ELSE signal.BuyDateTime

\* lastBuyDate of condition 4
LastBuyDate(signal) ==
    LatestBuy(signal.DipTrades,
              IF signal.InitialTrade # NilTrade THEN signal.InitialTrade.BuyDateTime
              ELSE signal.BuyDateTime)

\* dropPercentage of condition 2
DropPercentage(high20, currentPrice) ==
    Mul(Div(high20 - currentPrice, high20), NewFromInt(100))

MinDaysSinceLastBuy == 5
MinDropPercentage   == 10
MaxDipBuys          == 2

\* the dip-buy conditions without the cap on the number of dip buys
CheckDipBuyConditionsNoCap(signal, td, date) ==
    /\ td[signal.Ticker] # NoQuote
    /\ LET currentPrice == td[signal.Ticker].Price
           sma20        == td[signal.Ticker].SMA20
       IN  /\ ~(currentPrice >= sma20)
           /\ ~(DropPercentage(signal.HighPrice, currentPrice) < NewFromInt(MinDropPercentage))
           /\ ~(sma20 < signal.InitialTrade.BuyPrice)
           /\ ~(date - LastBuyDate(signal) < MinDaysSinceLastBuy)
           /\ ~(currentPrice >= signal.InitialTrade.BuyPrice)

\* the dip-buy conditions with a missing SMA20 taken as no constraint
CheckDipBuyConditionsMissingSMA(signal, td, date) ==
    /\ td[signal.Ticker] # NoQuote
    /\ LET currentPrice == td[signal.Ticker].Price
           sma20        == td[signal.Ticker].SMA20
       IN  /\ sma20 # 0 => ~(currentPrice >= sma20)
           /\ signal.HighPrice > 0
           /\ ~(DropPercentage(signal.HighPrice, currentPrice) < NewFromInt(MinDropPercentage))
           /\ sma20 # 0 => ~(sma20 < signal.InitialTrade.BuyPrice)
           /\ ~(date - LastBuyDate(signal) < MinDaysSinceLastBuy)
           /\ ~(currentPrice >= signal.InitialTrade.BuyPrice)
           /\ ~(Len(signal.DipTrades) >= MaxDipBuys)

CheckDipBuyConditions(signal, td, date) ==
    /\ td[signal.Ticker] # NoQuote
    /\ LET currentPrice == td[signal.Ticker].Price
           sma20        == td[signal.Ticker].SMA20
       IN  /\ ~(currentPrice >= sma20)
           /\ ~(DropPercentage(signal.HighPrice, currentPrice) < NewFromInt(MinDropPercentage))
           /\ ~(sma20 < signal.InitialTrade.BuyPrice)
           /\ ~(date - LastBuyDate(signal) < MinDaysSinceLastBuy)
           /\ ~(currentPrice >= signal.InitialTrade.BuyPrice)
           /\ ~(Len(signal.DipTrades) >= MaxDipBuys)

\* an update that makes HighPrice the price of the tick, higher or not
UpdateSignalsHighPriceFollows(sigs, td) ==
    [i \in DOMAIN sigs |->
        IF td[sigs[i].Ticker] # NoQuote
        THEN [sigs[i] EXCEPT !.HighPrice = td[sigs[i].Ticker].Price]
        ELSE sigs[i]]

UpdateSignalsHighPrice(sigs, td) ==
    [i \in DOMAIN sigs |->
        IF td[sigs[i].Ticker] # NoQuote /\ td[sigs[i].Ticker].Price > sigs[i].HighPrice
        THEN [sigs[i] EXCEPT !.HighPrice = td[sigs[i].Ticker].Price]
        ELSE sigs[i]]

\* a plain else in place of the test for ACTIVE
ActiveBranchNotPending(signal) == signal.Status # StatusPending

\* a buy that is tried on the buy date only
BuyDueOnDateOnly(signal, date) ==
    signal.Status = StatusPending /\ date = signal.BuyDateTime

\* the three guards of the range loop of Engine.Run
BuyDue(signal, date)  == signal.Status = StatusPending /\ date >= signal.BuyDateTime
ActiveBranch(signal)  == signal.Status = StatusActive
SellDue(signal, date) == date >= signal.SellDateTime

\* one iteration of the range loop of Engine.Run, for signal id
Visit(sigs, bal, pos, td, date, id) ==
    LET signal == sigs[id]
        same(op, e) == [op |-> op, err |-> e, signals |-> sigs, balance |-> bal,
                        positions |-> pos]
        did(op, r)  == [op |-> op, err |-> r.err, signals |-> r.signals,
                        balance |-> r.balance, positions |-> r.positions]
    IN  IF BuyDue(signal, date)
        THEN IF td[signal.Ticker] = NoQuote THEN same("buy", "no quote")
             ELSE did("buy", ExecuteBuy(sigs, bal, pos, td, date, id))
        ELSE IF ActiveBranch(signal)
        THEN IF SellDue(signal, date)
             THEN IF td[signal.Ticker] = NoQuote THEN same("sell", "no quote")
                  ELSE did("sell", ExecuteSell(sigs, bal, pos, td, date, id))
             ELSE IF CheckDipBuyConditions(signal, td, date)
                  THEN did("dip", ExecuteDipBuy(sigs, bal, pos, td, date, id))
                  ELSE same("none", "")
        ELSE same("none", "")

----------------------------------------------------------------------------
(* inputs of a backtest run *)

Tickers == {"X", "Y"}

Quote(price, sma) == [Price |-> NewFromInt(price), SMA20 |-> NewFromInt(sma)]

\* what GetHistoricalTickerQuote can hold for a ticker on one day: nothing, or a
\* close with its SMA20 (0 when fewer than 20 bars precede the day)
QuoteChoices(ticker) ==
    IF ticker = "X"
    THEN {NoQuote, Quote(100, 0), Quote(96, 100), Quote(80, 96), Quote(80, 100)}
    ELSE {NoQuote, Quote(50, 0)}

Horizon   == 18    \* days between buy and sell date of the long-running signal
ShortSpan == 1     \* days between buy and sell date of the other signals

\* the signal lists a run is started with (the CSV rows), ids 0..n-1: one signal
\* held long enough for every dip buy, two signals with 120% between them, and
\* three signals with 120% between them
SignalSets ==
    { [i \in {0} |-> NewSignal("X", 5, 5 + Horizon, w)] : w \in {20, 100} }
    \cup
    { [i \in {0, 1} |->
          IF i = 0 THEN NewSignal("X", 3, 3 + ShortSpan, 60)
          ELSE NewSignal(c[1], c[2], c[2] + ShortSpan, 60)] : c \in {<<"X", 4>>, <<"Y", 3>>} }
    \cup
    { [i \in {0, 1, 2} |->
          IF i = 0 THEN NewSignal("X", 1, 1 + ShortSpan, 80)
          ELSE IF i = 1 THEN NewSignal("Y", 1, 1 + ShortSpan, 20)
          ELSE NewSignal("X", b, 1 + ShortSpan, 20)] : b \in {2} }

----------------------------------------------------------------------------
(* pkg/backtest: Backtester *)

InitialBalance == 5000
WeeklyDeposit  == 500

Sunday   == 0
Monday   == 1
Saturday == 6
Weekday(date) == date % 7

Min(S) == CHOOSE x \in S : \A y \in S : x <= y
Max(S) == CHOOSE x \in S : \A y \in S : x >= y

EarliestBuyDate(sigs) == Min({sigs[i].BuyDateTime : i \in DOMAIN sigs})
\* latestSellDate after AddDate(0, 0, 1)
LatestSellDate(sigs)  == Max({sigs[i].SellDateTime : i \in DOMAIN sigs}) + 1

NoOp == [id |-> -1, op |-> "none", err |-> ""]

\* no direct call of the ledger has been made
NoCall == [op |-> "none"]

\* no replay is being made, no bot is running
NoReplay == [state |-> "none"]
NoBot    == [state |-> "none"]

\* the zero value of sync.RWMutex
Unlocked == [writer |-> "none", readers |-> {}]

Init ==
    /\ signals \in SignalSets
    /\ balance = NewFromInt(InitialBalance)
    /\ positions = [t \in Tickers |-> NoPosition]
    /\ currentDate = EarliestBuyDate(signals)
    /\ tickerData = [t \in Tickers |-> NoQuote]
    /\ order = {}
    /\ pc = "day"
    /\ lastOp = NoOp
    /\ deposits = NewFromInt(InitialBalance)
    /\ external = 0
    /\ call = NoCall
    /\ procs = << >>
    /\ mu = Unlocked
    /\ replay = NoReplay
    /\ bot = NoBot

\* the day loop is over
Finish ==
    /\ pc = "day"
    /\ currentDate > LatestSellDate(signals)
    /\ pc' = "done"
    /\ UNCHANGED <<signals, balance, positions, currentDate, tickerData, order, lastOp, deposits,
                   external>>
    /\ UNCHANGED others

\* IsMarketOpenOnDate is false: the day is skipped
MarketClosed ==
    /\ pc = "day"
    /\ currentDate <= LatestSellDate(signals)
    /\ Weekday(currentDate) \in {Saturday, Sunday}
    /\ currentDate' = currentDate + 1
    /\ UNCHANGED <<signals, balance, positions, tickerData, order, pc, lastOp, deposits,
                   external>>
    /\ UNCHANGED others

\* the body of the day loop up to engine.New: the Monday deposit and the day's quotes
StartTick ==
    /\ pc = "day"
    /\ currentDate <= LatestSellDate(signals)
    /\ Weekday(currentDate) \notin {Saturday, Sunday}
    /\ LET amount == IF Weekday(currentDate) = Monday THEN NewFromInt(WeeklyDeposit) ELSE 0
       IN  /\ balance' = balance + amount
           /\ deposits' = deposits + amount
    /\ tickerData' \in {q \in [Tickers -> UNION {QuoteChoices(t) : t \in Tickers}] :
                           \A t \in Tickers : q[t] \in QuoteChoices(t)}
    /\ order' = DOMAIN signals
    /\ pc' = "run"
    /\ lastOp' = NoOp
    /\ UNCHANGED <<signals, positions, currentDate, external>>
    /\ UNCHANGED others

\* one iteration of the range loop of Engine.Run: Go visits the entries of a map in
\* an unspecified order, so the next signal is any one not visited yet
RunSignal ==
    /\ pc = "run"
    /\ \E id \in order :
          LET r == Visit(signals, balance, positions, tickerData, currentDate, id)
          IN  /\ signals' = r.signals
              /\ balance' = r.balance
              /\ positions' = r.positions
              /\ lastOp' = [id |-> id, op |-> r.op, err |-> r.err]
              /\ order' = order \ {id}
    /\ UNCHANGED <<currentDate, tickerData, pc, deposits, external>>
    /\ UNCHANGED others

\* the end of Engine.Run and of the day: high prices are updated, the day advances
EndTick ==
    /\ pc = "run"
    /\ order = {}
    /\ signals' = UpdateSignalsHighPrice(signals, tickerData)
    /\ tickerData' = [t \in Tickers |-> NoQuote]
    /\ currentDate' = currentDate + 1
    /\ pc' = "day"
    /\ lastOp' = NoOp
    /\ UNCHANGED <<balance, positions, order, deposits, external>>
    /\ UNCHANGED others

Next == Finish \/ MarketClosed \/ StartTick \/ RunSignal \/ EndTick

Spec == Init /\ [][Next]_vars

----------------------------------------------------------------------------
(* The ledger is handed to the engine as a brokerage.Brokerage: the same account
   may be used by another caller.  SpecShared adds such a caller, who sells from a
   position between two days through the ledger's own ExecuteSellOrder. *)

MaxExternalOrders == 1

ExternalSellOrder ==
    /\ pc = "day"
    /\ currentDate <= LatestSellDate(signals)
    /\ external < MaxExternalOrders
    /\ \E symbol \in Tickers :
          /\ positions[symbol] # NoPosition
          /\ \E quantity \in {positions[symbol].Shares, NewFromInt(1)} :
                LET r == ExecuteSellOrder(balance, positions, symbol, quantity,
                                          positions[symbol].AvgBuyPrice)
                IN  /\ r.err = ""
                    /\ balance' = r.balance
                    /\ positions' = r.positions
    /\ external' = external + 1
    /\ UNCHANGED <<signals, currentDate, tickerData, order, pc, lastOp, deposits>>
    /\ UNCHANGED others

NextShared == Next \/ ExternalSellOrder

\* runs with two signals
InitShared == Init /\ Cardinality(DOMAIN signals) = 2

SpecShared == InitShared /\ [][NextShared]_vars

----------------------------------------------------------------------------
(* The ledger called directly, as the tests of pkg/brokerage call it: a session of
   up to MaxCalls calls of ExecuteBuyOrder, ExecuteSellOrder and AddDeposit on a
   ledger made by NewBacktestBrokerage. *)

MaxCalls == 4

LedgerBalances   == {NewFromInt(0), NewFromInt(250)}
LedgerQuantities == {NewFromInt(1), Div(NewFromInt(5), NewFromInt(2))}
LedgerPrices     == {NewFromInt(80), NewFromInt(100)}
LedgerAmounts    == {NewFromInt(500)}

InitLedger ==
    /\ signals = << >>
    /\ balance \in LedgerBalances
    /\ positions = [t \in Tickers |-> NoPosition]
    /\ currentDate = 0
    /\ tickerData = [t \in Tickers |-> NoQuote]
    /\ order = {}
    /\ pc = "ledger"
    /\ lastOp = NoOp
    /\ deposits = balance
    /\ external = 0
    /\ call = NoCall
    /\ procs = << >>
    /\ mu = Unlocked
    /\ replay = NoReplay
    /\ bot = NoBot

CallExecuteBuyOrder ==
    /\ pc = "ledger"
    /\ external < MaxCalls
    /\ \E symbol \in Tickers, quantity \in LedgerQuantities, limitPrice \in LedgerPrices :
          LET r == ExecuteBuyOrder(balance, positions, symbol, quantity, limitPrice)
          IN  /\ balance' = r.balance
              /\ positions' = r.positions
              /\ call' = [op |-> "ExecuteBuyOrder", symbol |-> symbol,
                          quantity |-> quantity, limitPrice |-> limitPrice, err |-> r.err]
    /\ external' = external + 1
    /\ UNCHANGED <<signals, currentDate, tickerData, order, pc, lastOp, deposits>>
    /\ UNCHANGED <<procs, mu, replay, bot>>

CallExecuteSellOrder ==
    /\ pc = "ledger"
    /\ external < MaxCalls
    /\ \E symbol \in Tickers, quantity \in LedgerQuantities, limitPrice \in LedgerPrices :
          LET r == ExecuteSellOrder(balance, positions, symbol, quantity, limitPrice)
          IN  /\ balance' = r.balance
              /\ positions' = r.positions
              /\ call' = [op |-> "ExecuteSellOrder", symbol |-> symbol,
                          quantity |-> quantity, limitPrice |-> limitPrice, err |-> r.err]
    /\ external' = external + 1
    /\ UNCHANGED <<signals, currentDate, tickerData, order, pc, lastOp, deposits>>
    /\ UNCHANGED <<procs, mu, replay, bot>>

CallAddDeposit ==
    /\ pc = "ledger"
    /\ external < MaxCalls
    /\ \E amount \in LedgerAmounts :
          /\ balance' = AddDeposit(balance, amount)
          /\ deposits' = deposits + amount
          /\ call' = [op |-> "AddDeposit", amount |-> amount, err |-> ""]
    /\ external' = external + 1
    /\ UNCHANGED <<signals, positions, currentDate, tickerData, order, pc, lastOp>>
    /\ UNCHANGED <<procs, mu, replay, bot>>

NextLedger == CallExecuteBuyOrder \/ CallExecuteSellOrder \/ CallAddDeposit

SpecLedger == InitLedger /\ [][NextLedger]_vars

\* a ledger is used either by a backtest run or by a session of direct calls
InitOrders == Init \/ InitLedger

NextOrders == Next \/ NextLedger

SpecOrders == InitOrders /\ [][NextOrders]_vars

----------------------------------------------------------------------------
(* The ledger called by goroutines, as TestConcurrentOperations calls it.  Every
   method takes b.mu first (Lock for AddDeposit and ExecuteBuyOrder, RLock for
   GetAccountValue) and releases it on return; between the two, a statement such
   as b.balance = b.balance.Sub(totalCost) is a read of the field followed by a
   write, and another goroutine runs between any two steps. *)

NumDepositors == 2
NumBuyers     == 2
NumReaders    == 1

Depositors == {<<"AddDeposit", k>> : k \in 1..NumDepositors}
Buyers     == {<<"ExecuteBuyOrder", k>> : k \in 1..NumBuyers}
Readers    == {<<"GetAccountValue", k>> : k \in 1..NumReaders}
Goroutines == Depositors \cup Buyers \cup Readers

\* what the goroutines of the session pass: one symbol, one order, one amount
ConcurrentBalance  == NewFromInt(150)
ConcurrentSymbol   == "X"
ConcurrentQuantity == NewFromInt(1)
ConcurrentPrice    == NewFromInt(100)
ConcurrentAmount   == NewFromInt(500)

\* a goroutine before its call: tmp is the field it has read, value what it returns
NewGoroutine(p) ==
    [pc |-> IF p \in Readers THEN "rlock" ELSE "lock", tmp |-> 0, value |-> 0, err |-> ""]

\* a writer that takes the lock whoever holds it
CanLockAlways(m) == TRUE

\* sync.RWMutex.Lock returns once no writer and no reader holds the mutex
CanLock(m) == m.writer = "none" /\ m.readers = {}

\* sync.RWMutex.RLock returns once no writer holds the mutex
CanRLock(m) == m.writer = "none"

InitConcurrent ==
    /\ signals = << >>
    /\ balance = ConcurrentBalance
    /\ positions = [t \in Tickers |-> NoPosition]
    /\ currentDate = 0
    /\ tickerData = [t \in Tickers |-> NoQuote]
    /\ order = {}
    /\ pc = "go"
    /\ lastOp = NoOp
    /\ deposits = balance
    /\ external = 0
    /\ call = NoCall
    /\ procs = [p \in Goroutines |-> NewGoroutine(p)]
    /\ mu = Unlocked
    /\ replay = NoReplay
    /\ bot = NoBot

\* b.mu.Lock() of AddDeposit and ExecuteBuyOrder
Lock(p) ==
    /\ p \in Depositors \cup Buyers
    /\ procs[p].pc = "lock"
    /\ CanLock(mu)
    /\ mu' = [mu EXCEPT !.writer = p]
    /\ procs' = [procs EXCEPT ![p].pc = IF p \in Buyers THEN "check" ELSE "read"]
    /\ UNCHANGED <<balance, positions, deposits>>

\* if b.balance.LessThan(totalCost): the order is rejected or goes on
BuyCheck(p) ==
    /\ p \in Buyers
    /\ procs[p].pc = "check"
    /\ procs' = IF balance < Mul(ConcurrentQuantity, ConcurrentPrice)
                THEN [procs EXCEPT ![p].err = "insufficient funds", ![p].pc = "unlock"]
                ELSE [procs EXCEPT ![p].pc = "read"]
    /\ UNCHANGED <<balance, positions, deposits, mu>>

\* the read of b.balance in b.balance = b.balance.Add(amount) / .Sub(totalCost)
ReadBalance(p) ==
    /\ p \in Depositors \cup Buyers
    /\ procs[p].pc = "read"
    /\ procs' = [procs EXCEPT ![p].tmp = balance, ![p].pc = "write"]
    /\ UNCHANGED <<balance, positions, deposits, mu>>

\* the write of b.balance in AddDeposit
DepositWrite(p) ==
    /\ p \in Depositors
    /\ procs[p].pc = "write"
    /\ balance' = AddDeposit(procs[p].tmp, ConcurrentAmount)
    /\ deposits' = deposits + ConcurrentAmount
    /\ procs' = [procs EXCEPT ![p].pc = "unlock"]
    /\ UNCHANGED <<positions, mu>>

\* the write of b.balance in ExecuteBuyOrder
BuyWrite(p) ==
    /\ p \in Buyers
    /\ procs[p].pc = "write"
    /\ balance' = procs[p].tmp - Mul(ConcurrentQuantity, ConcurrentPrice)
    /\ procs' = [procs EXCEPT ![p].pc = "position"]
    /\ UNCHANGED <<positions, deposits, mu>>

\* the update of b.positions in ExecuteBuyOrder
BuyPosition(p) ==
    /\ p \in Buyers
    /\ procs[p].pc = "position"
    /\ positions' = ExecuteBuyOrder(Mul(ConcurrentQuantity, ConcurrentPrice), positions,
                                    ConcurrentSymbol, ConcurrentQuantity,
                                    ConcurrentPrice).positions
    /\ procs' = [procs EXCEPT ![p].pc = "unlock"]
    /\ UNCHANGED <<balance, deposits, mu>>

\* the deferred b.mu.Unlock()
Unlock(p) ==
    /\ p \in Depositors \cup Buyers
    /\ procs[p].pc = "unlock"
    /\ mu' = [mu EXCEPT !.writer = IF @ = p THEN "none" ELSE @]
    /\ procs' = [procs EXCEPT ![p].pc = "done"]
    /\ UNCHANGED <<balance, positions, deposits>>

\* b.mu.RLock() of GetAccountValue
RLock(p) ==
    /\ p \in Readers
    /\ procs[p].pc = "rlock"
    /\ CanRLock(mu)
    /\ mu' = [mu EXCEPT !.readers = @ \cup {p}]
    /\ procs' = [procs EXCEPT ![p].pc = "balance"]
    /\ UNCHANGED <<balance, positions, deposits>>

\* totalValue := b.balance
ReaderBalance(p) ==
    /\ p \in Readers
    /\ procs[p].pc = "balance"
    /\ procs' = [procs EXCEPT ![p].tmp = balance, ![p].pc = "positions"]
    /\ UNCHANGED <<balance, positions, deposits, mu>>

\* the loop over b.positions of GetAccountValue
ReaderPositions(p) ==
    /\ p \in Readers
    /\ procs[p].pc = "positions"
    /\ procs' = [procs EXCEPT ![p].value = GetAccountValue(procs[p].tmp, positions),
                              ![p].pc = "runlock"]
    /\ UNCHANGED <<balance, positions, deposits, mu>>

\* the deferred b.mu.RUnlock()
RUnlock(p) ==
    /\ p \in Readers
    /\ procs[p].pc = "runlock"
    /\ mu' = [mu EXCEPT !.readers = @ \ {p}]
    /\ procs' = [procs EXCEPT ![p].pc = "done"]
    /\ UNCHANGED <<balance, positions, deposits>>

NextConcurrent ==
    /\ pc = "go"
    /\ \E p \in DOMAIN procs :
          \/ Lock(p) \/ BuyCheck(p) \/ ReadBalance(p) \/ DepositWrite(p) \/ BuyWrite(p)
          \/ BuyPosition(p) \/ Unlock(p)
          \/ RLock(p) \/ ReaderBalance(p) \/ ReaderPositions(p) \/ RUnlock(p)
    /\ UNCHANGED <<signals, currentDate, tickerData, order, pc, lastOp, external, call,
                   replay, bot>>

SpecConcurrent == InitConcurrent /\ [][NextConcurrent]_vars

----------------------------------------------------------------------------
(* src/backtesting: simulateSimpleTrailingStop, the trailing-stop replay of the
   strategy comparison.  The code computes in float64; prices are whole dollars
   here, trailingStopPct is a whole percentage, the stop level is kept in
   hundredths of a dollar (price x (100 - pct)) and the gains in percent, which
   is exact for the entry price 100. *)

MaxDays == 5

ReplayEntries  == {100}
ReplayPrices   == {84, 100, 101, 110, 120}
ReplayStopPcts == {15, 50}

RECURSIVE SeqsUpTo(_, _)
SeqsUpTo(S, n) ==
    IF n = 0 THEN {<< >>}
    ELSE LET shorter == SeqsUpTo(S, n - 1)
         IN  shorter \cup {Append(q, x) : q \in {r \in shorter : Len(r) = n - 1}, x \in S}

\* the locals of simulateSimpleTrailingStop before the loop
TrailingStart(initialPrice, trailingStopPct) ==
    [ trailingStopLevel |-> initialPrice * (100 - trailingStopPct),
      highestPrice      |-> initialPrice,
      maxGain           |-> 0,
      maxDrawdown       |-> 0,
      exitStrategy      |-> "",
      finalPrice        |-> initialPrice,
      stopped           |-> FALSE ]

\* a loop body that never raises the stop
TrailingDayFixedStop(initialPrice, trailingStopPct, price, last, st) ==
    LET currentGain == ((price - initialPrice) * 100) \div initialPrice
        gain        == IF currentGain > st.maxGain THEN currentGain ELSE st.maxGain
        drawdown    == IF currentGain < st.maxDrawdown THEN currentGain ELSE st.maxDrawdown
    IN  IF price * 100 <= st.trailingStopLevel
        THEN [st EXCEPT !.maxGain = gain, !.maxDrawdown = drawdown, !.finalPrice = price,
                        !.exitStrategy = "Trailing stop hit", !.stopped = TRUE]
        ELSE [st EXCEPT !.maxGain = gain, !.maxDrawdown = drawdown,
                        !.finalPrice = IF last THEN price ELSE @,
                        !.exitStrategy = IF last /\ @ = "" THEN "Held until sell date" ELSE @]

\* the body of the loop over dailyPrices; last: i == len(dailyPrices)-1
TrailingDay(initialPrice, trailingStopPct, price, last, st) ==
    LET currentGain == ((price - initialPrice) * 100) \div initialPrice
        gain        == IF currentGain > st.maxGain THEN currentGain ELSE st.maxGain
        drawdown    == IF currentGain < st.maxDrawdown THEN currentGain ELSE st.maxDrawdown
        newHigh     == price > st.highestPrice
    IN  IF price * 100 <= st.trailingStopLevel
        THEN [st EXCEPT !.maxGain = gain, !.maxDrawdown = drawdown, !.finalPrice = price,
                        !.exitStrategy = "Trailing stop hit", !.stopped = TRUE]
        ELSE [st EXCEPT !.maxGain = gain, !.maxDrawdown = drawdown,
                        !.highestPrice = IF newHigh THEN price ELSE @,
                        !.trailingStopLevel =
                            IF newHigh THEN price * (100 - trailingStopPct) ELSE @,
                        !.finalPrice = IF last THEN price ELSE @,
                        !.exitStrategy = IF last /\ @ = "" THEN "Held until sell date" ELSE @]

\* the loop from day i on; it ends at the break or after the last day
RECURSIVE TrailingLoop(_, _, _, _, _)
TrailingLoop(initialPrice, dailyPrices, trailingStopPct, i, st) ==
    IF i > Len(dailyPrices) \/ st.stopped THEN st
    ELSE TrailingLoop(initialPrice, dailyPrices, trailingStopPct, i + 1,
                      TrailingDay(initialPrice, trailingStopPct, dailyPrices[i],
                                  i = Len(dailyPrices), st))

\* simulateSimpleTrailingStop: the four values returned, with the locals at return
simulateSimpleTrailingStop(initialPrice, dailyPrices, trailingStopPct) ==
    IF Len(dailyPrices) = 0
    THEN [TrailingStart(initialPrice, trailingStopPct) EXCEPT !.exitStrategy = "No data"]
    ELSE TrailingLoop(initialPrice, dailyPrices, trailingStopPct, 1,
                      TrailingStart(initialPrice, trailingStopPct))

InitReplay ==
    /\ signals = << >>
    /\ balance = 0
    /\ positions = [t \in Tickers |-> NoPosition]
    /\ currentDate = 0
    /\ tickerData = [t \in Tickers |-> NoQuote]
    /\ order = {}
    /\ pc = "replay"
    /\ lastOp = NoOp
    /\ deposits = 0
    /\ external = 0
    /\ call = NoCall
    /\ procs = << >>
    /\ mu = Unlocked
    /\ bot = NoBot
    /\ \E initialPrice \in ReplayEntries, dailyPrices \in SeqsUpTo(ReplayPrices, MaxDays),
          trailingStopPct \in ReplayStopPcts :
          replay = [state |-> "called", initialPrice |-> initialPrice,
                    dailyPrices |-> dailyPrices, trailingStopPct |-> trailingStopPct]

\* the call returns
Replay ==
    /\ pc = "replay"
    /\ replay.state = "called"
    /\ replay' = [state |-> "returned", initialPrice |-> replay.initialPrice,
                  dailyPrices |-> replay.dailyPrices,
                  trailingStopPct |-> replay.trailingStopPct,
                  result |-> simulateSimpleTrailingStop(replay.initialPrice,
                                                        replay.dailyPrices,
                                                        replay.trailingStopPct)]
    /\ UNCHANGED <<signals, balance, positions, currentDate, tickerData, order, pc, lastOp,
                   deposits, external, call, procs, mu, bot>>

SpecReplay == InitReplay /\ [][Replay]_vars

(* src/backtesting: simulateTrailingStop, the replay with a take-profit target and
   a trailing stop.  takeProfitPct is a whole percentage; the target, like the
   stop level, is kept in hundredths of a dollar (price x (100 + pct)). *)

ReplayTakeProfitPcts == {5, 15}

\* the locals of simulateTrailingStop before the loop
TakeProfitStart(initialPrice, takeProfitPct, trailingStopPct) ==
    [ takeProfitTarget  |-> initialPrice * (100 + takeProfitPct),
      trailingStopLevel |-> initialPrice * (100 - trailingStopPct),
      highestPrice      |-> initialPrice,
      takeProfitHit     |-> FALSE,
      maxGain           |-> 0,
      maxDrawdown       |-> 0,
      exitStrategy      |-> "",
      finalPrice        |-> initialPrice,
      stopped           |-> FALSE,
      days              |-> 0 ]

\* a loop body that leaves the loop on the day the target is reached
TakeProfitDayExitsOnTarget(initialPrice, trailingStopPct, price, last, st) ==
    LET currentGain == ((price - initialPrice) * 100) \div initialPrice
        gain        == IF currentGain > st.maxGain THEN currentGain ELSE st.maxGain
        drawdown    == IF currentGain < st.maxDrawdown THEN currentGain ELSE st.maxDrawdown
        hit         == price * 100 >= st.takeProfitTarget
        newHigh     == price > st.highestPrice
        level       == IF newHigh THEN price * (100 - trailingStopPct)
                       ELSE st.trailingStopLevel
        tracked     == [st EXCEPT !.maxGain = gain, !.maxDrawdown = drawdown,
                                  !.takeProfitHit = @ \/ hit,
                                  !.exitStrategy =
                                      IF hit THEN "Take profit triggered, trailing stop active"
                                      ELSE @,
                                  !.highestPrice = IF newHigh THEN price ELSE @,
                                  !.trailingStopLevel = level,
                                  !.days = @ + 1]
    IN  IF hit
        THEN [tracked EXCEPT !.finalPrice = price, !.stopped = TRUE]
        ELSE IF price * 100 <= level
        THEN [tracked EXCEPT !.finalPrice = price,
                             !.exitStrategy = "Trailing stop hit (before take profit)",
                             !.stopped = TRUE]
        ELSE [tracked EXCEPT !.finalPrice = IF last THEN price ELSE @,
                             !.exitStrategy =
                                 IF last /\ @ = "" THEN "Held until sell date" ELSE @]

\* the body of the loop over dailyPrices; last: i == len(dailyPrices)-1
TakeProfitDay(initialPrice, trailingStopPct, price, last, st) ==
    LET currentGain == ((price - initialPrice) * 100) \div initialPrice
        gain        == IF currentGain > st.maxGain THEN currentGain ELSE st.maxGain
        drawdown    == IF currentGain < st.maxDrawdown THEN currentGain ELSE st.maxDrawdown
        hit         == price * 100 >= st.takeProfitTarget
        newHigh     == price > st.highestPrice
        level       == IF newHigh THEN price * (100 - trailingStopPct)
                       ELSE st.trailingStopLevel
        tracked     == [st EXCEPT !.maxGain = gain, !.maxDrawdown = drawdown,
                                  !.takeProfitHit = @ \/ hit,
                                  !.exitStrategy =
                                      IF hit THEN "Take profit triggered, trailing stop active"
                                      ELSE @,
                                  !.highestPrice = IF newHigh THEN price ELSE @,
                                  !.trailingStopLevel = level,
                                  !.days = @ + 1]
    IN  IF price * 100 <= level
        THEN [tracked EXCEPT !.finalPrice = price,
                             !.exitStrategy =
                                 IF tracked.takeProfitHit
                                 THEN "Trailing stop hit (after take profit)"
                                 ELSE "Trailing stop hit (before take profit)",
                             !.stopped = TRUE]
        ELSE [tracked EXCEPT !.finalPrice = IF last THEN price ELSE @,
                             !.exitStrategy =
                                 IF last /\ @ = "" THEN "Held until sell date" ELSE @]

\* the loop from day i on; it ends at the break or after the last day
RECURSIVE TakeProfitLoop(_, _, _, _, _)
TakeProfitLoop(initialPrice, dailyPrices, trailingStopPct, i, st) ==
    IF i > Len(dailyPrices) \/ st.stopped THEN st
    ELSE TakeProfitLoop(initialPrice, dailyPrices, trailingStopPct, i + 1,
                        TakeProfitDay(initialPrice, trailingStopPct, dailyPrices[i],
                                      i = Len(dailyPrices), st))

\* simulateTrailingStop: the four values returned, with the locals at return
simulateTrailingStop(initialPrice, dailyPrices, takeProfitPct, trailingStopPct) ==
    IF Len(dailyPrices) = 0
    THEN [TakeProfitStart(initialPrice, takeProfitPct, trailingStopPct)
            EXCEPT !.exitStrategy = "No data"]
    ELSE TakeProfitLoop(initialPrice, dailyPrices, trailingStopPct, 1,
                        TakeProfitStart(initialPrice, takeProfitPct, trailingStopPct))

\* the comparison of the strategies calls both replays on one series
InitCompare ==
    /\ signals = << >>
    /\ balance = 0
    /\ positions = [t \in Tickers |-> NoPosition]
    /\ currentDate = 0
    /\ tickerData = [t \in Tickers |-> NoQuote]
    /\ order = {}
    /\ pc = "compare"
    /\ lastOp = NoOp
    /\ deposits = 0
    /\ external = 0
    /\ call = NoCall
    /\ procs = << >>
    /\ mu = Unlocked
    /\ bot = NoBot
    /\ \E initialPrice \in ReplayEntries, dailyPrices \in SeqsUpTo(ReplayPrices, MaxDays),
          takeProfitPct \in ReplayTakeProfitPcts, trailingStopPct \in ReplayStopPcts :
          replay = [state |-> "called", initialPrice |-> initialPrice,
                    dailyPrices |-> dailyPrices, takeProfitPct |-> takeProfitPct,
                    trailingStopPct |-> trailingStopPct]

\* both calls return
Compare ==
    /\ pc = "compare"
    /\ replay.state = "called"
    /\ replay' = [state |-> "returned", initialPrice |-> replay.initialPrice,
                  dailyPrices |-> replay.dailyPrices,
                  takeProfitPct |-> replay.takeProfitPct,
                  trailingStopPct |-> replay.trailingStopPct,
                  result |-> simulateTrailingStop(replay.initialPrice, replay.dailyPrices,
                                                  replay.takeProfitPct,
                                                  replay.trailingStopPct),
                  simple |-> simulateSimpleTrailingStop(replay.initialPrice,
                                                        replay.dailyPrices,
                                                        replay.trailingStopPct)]
    /\ UNCHANGED <<signals, balance, positions, currentDate, tickerData, order, pc, lastOp,
                   deposits, external, call, procs, mu, bot>>

SpecCompare == InitCompare /\ [][Compare]_vars

(* src/backtesting: detectDip, the dip price of the staggered entry, and the
   blended entry price of runStaggeredEntryStrategy.  Prices are whole dollars;
   the thresholds of the code (0.95, 0.98, 0.99, -0.03) are compared after
   multiplying both sides by 100, and staggerPercent is a whole percentage, so
   weightedBuyPrice is kept in hundredths of a dollar. *)

MaxDipDays == 3

DipEntries         == {200}
DipSeriesPrices    == {188, 195, 197, 198, 199, 200, 203, 210}
DipStaggerPercents == {50, 80}

\* the lowest price of a series that is not empty
LowestPrice(dailyPrices) ==
    CHOOSE p \in {dailyPrices[k] : k \in 1..Len(dailyPrices)} :
        \A k \in 1..Len(dailyPrices) : p <= dailyPrices[k]

\* a detectDip without the steps between the 5% drop and the fallback
detectDipLowestOnly(initialPrice, dailyPrices, staggerPercent) ==
    LET oversold == {k \in 1..Len(dailyPrices) :
                        dailyPrices[k] * 100 <= initialPrice * 95}
    IN  IF Len(dailyPrices) = 0
        THEN [price |-> initialPrice, strategy |-> "no dip detected (no data)"]
        ELSE IF oversold # {}
        THEN [price |-> dailyPrices[Min(oversold)], strategy |-> "RSI oversold (5% drop)"]
        ELSE IF LowestPrice(dailyPrices) * 100 < initialPrice * 99
        THEN [price |-> LowestPrice(dailyPrices), strategy |-> "lowest price (1%+ drop)"]
        ELSE [price |-> initialPrice, strategy |-> "no dip detected"]

\* detectDip: the price and the strategy returned.  Each loop that returns at the
\* first price passing a test is the least index of the set of indices that pass
\* it; dailyPrices[0] of the code is dailyPrices[1] here.
detectDip(initialPrice, dailyPrices, staggerPercent) ==
    LET oversold == {k \in 1..Len(dailyPrices) :
                        dailyPrices[k] * 100 <= initialPrice * 95}
        spike    == {k \in 2..Len(dailyPrices) :
                        (dailyPrices[k] - dailyPrices[k - 1]) * 100
                            < (0 - 3) * dailyPrices[k - 1]}
        support  == {k \in 1..Len(dailyPrices) :
                        dailyPrices[k] * 100 <= initialPrice * 98}
    IN  IF Len(dailyPrices) = 0
        THEN [price |-> initialPrice, strategy |-> "no dip detected (no data)"]
        ELSE IF oversold # {}
        THEN [price |-> dailyPrices[Min(oversold)], strategy |-> "RSI oversold (5% drop)"]
        ELSE IF /\ Len(dailyPrices) >= 3
                /\ dailyPrices[3] * 2 < dailyPrices[1] + dailyPrices[2]
                /\ dailyPrices[3] < initialPrice
        THEN [price |-> dailyPrices[3], strategy |-> "MA crossover"]
        ELSE IF spike # {}
        THEN [price |-> dailyPrices[Min(spike)], strategy |-> "volatility spike (3% drop)"]
        ELSE IF support # {}
        THEN [price |-> dailyPrices[Min(support)], strategy |-> "support break (2% drop)"]
        ELSE IF /\ Len(dailyPrices) >= 2
                /\ dailyPrices[2] < dailyPrices[1]
                /\ dailyPrices[2] < initialPrice
        THEN [price |-> dailyPrices[2], strategy |-> "momentum reversal"]
        ELSE IF LowestPrice(dailyPrices) * 100 < initialPrice * 99
        THEN [price |-> LowestPrice(dailyPrices), strategy |-> "lowest price (1%+ drop)"]
        ELSE [price |-> initialPrice, strategy |-> "no dip detected"]

\* runStaggeredEntryStrategy: weightedBuyPrice, in hundredths of a dollar
weightedBuyPrice(initialBuyPrice, dipBuyPrice, staggerPercent) ==
    initialBuyPrice * staggerPercent + dipBuyPrice * (100 - staggerPercent)

\* runStaggeredEntryStrategy has the entry price and the prices of the first week
InitDip ==
    /\ signals = << >>
    /\ balance = 0
    /\ positions = [t \in Tickers |-> NoPosition]
    /\ currentDate = 0
    /\ tickerData = [t \in Tickers |-> NoQuote]
    /\ order = {}
    /\ pc = "dip"
    /\ lastOp = NoOp
    /\ deposits = 0
    /\ external = 0
    /\ call = NoCall
    /\ procs = << >>
    /\ mu = Unlocked
    /\ bot = NoBot
    /\ \E initialPrice \in DipEntries, dailyPrices \in SeqsUpTo(DipSeriesPrices, MaxDipDays),
          staggerPercent \in DipStaggerPercents :
          replay = [state |-> "called", initialPrice |-> initialPrice,
                    dailyPrices |-> dailyPrices, staggerPercent |-> staggerPercent]

\* detectDip returns and the blended entry price is computed
StaggeredEntry ==
    /\ pc = "dip"
    /\ replay.state = "called"
    /\ LET dip == detectDip(replay.initialPrice, replay.dailyPrices, replay.staggerPercent)
       IN  replay' = [state |-> "returned", initialPrice |-> replay.initialPrice,
                      dailyPrices |-> replay.dailyPrices,
                      staggerPercent |-> replay.staggerPercent,
                      dipBuyPrice |-> dip.price,
                      dipStrategy |-> dip.strategy,
                      weightedBuyPrice |-> weightedBuyPrice(replay.initialPrice, dip.price,
                                                            replay.staggerPercent)]
    /\ UNCHANGED <<signals, balance, positions, currentDate, tickerData, order, pc, lastOp,
                   deposits, external, call, procs, mu, bot>>

SpecDip == InitDip /\ [][StaggeredEntry]_vars

(* The two loops of the replays, one iteration at a time, over the same series:
   replay.days is the length of dailyPrices, chosen at the call, replay.dailyPrices
   the prices read so far, replay.simple and replay.result the locals of
   simulateSimpleTrailingStop and simulateTrailingStop after those prices. *)

InitDays ==
    /\ signals = << >>
    /\ balance = 0
    /\ positions = [t \in Tickers |-> NoPosition]
    /\ currentDate = 0
    /\ tickerData = [t \in Tickers |-> NoQuote]
    /\ order = {}
    /\ pc = "days"
    /\ lastOp = NoOp
    /\ deposits = 0
    /\ external = 0
    /\ call = NoCall
    /\ procs = << >>
    /\ mu = Unlocked
    /\ bot = NoBot
    /\ \E initialPrice \in ReplayEntries, days \in 1..MaxDays,
          takeProfitPct \in ReplayTakeProfitPcts, trailingStopPct \in ReplayStopPcts :
          replay = [state |-> "loop", initialPrice |-> initialPrice, days |-> days,
                    dailyPrices |-> << >>, takeProfitPct |-> takeProfitPct,
                    trailingStopPct |-> trailingStopPct,
                    result |-> TakeProfitStart(initialPrice, takeProfitPct, trailingStopPct),
                    simple |-> TrailingStart(initialPrice, trailingStopPct)]

\* one iteration of each loop that has not ended, on the next price of the series
NextDay ==
    /\ pc = "days"
    /\ replay.state = "loop"
    /\ Len(replay.dailyPrices) < replay.days
    /\ ~ (replay.result.stopped /\ replay.simple.stopped)
    /\ \E price \in ReplayPrices :
          LET last == Len(replay.dailyPrices) + 1 = replay.days
          IN  replay' = [replay EXCEPT
                  !.dailyPrices = Append(@, price),
                  !.result = IF @.stopped THEN @
                             ELSE TakeProfitDay(replay.initialPrice, replay.trailingStopPct,
                                                price, last, @),
                  !.simple = IF @.stopped THEN @
                             ELSE TrailingDay(replay.initialPrice, replay.trailingStopPct,
                                              price, last, @)]
    /\ UNCHANGED <<signals, balance, positions, currentDate, tickerData, order, pc, lastOp,
                   deposits, external, call, procs, mu, bot>>

SpecDays == InitDays /\ [][NextDay]_vars

(* src/backtesting: GetClosingPrice, the closing-price lookup with its retries.
   The market data service is the environment: each GetBars call for one day
   answers with an error, with no bars, or with the bar of that day.  Dates are
   whole days and the close of a day is a price that names the day. *)

maxAttempts == 10

ClosingDates  == {1, 4}
BarsResponses == {"error", "empty", "bars"}

\* bars[0].Close of the bar of a day
CloseOf(day) == 100 + day

\* a step to the day before
PreviousDay(day) == day - 1

\* currentDate.AddDate(0, 0, 1)
NextDayOf(day) == day + 1

InitClosing ==
    /\ signals = << >>
    /\ balance = 0
    /\ positions = [t \in Tickers |-> NoPosition]
    /\ currentDate = 0
    /\ tickerData = [t \in Tickers |-> NoQuote]
    /\ order = {}
    /\ pc = "closing"
    /\ lastOp = NoOp
    /\ deposits = 0
    /\ external = 0
    /\ call = NoCall
    /\ procs = << >>
    /\ mu = Unlocked
    /\ bot = NoBot
    /\ \E date \in ClosingDates :
          replay = [state |-> "loop", date |-> date, attempt |-> 0, currentDate |-> date,
                    lookups |-> << >>, closingPrice |-> 0, err |-> ""]

\* one iteration of the loop of GetClosingPrice: a GetBars call and what follows
\* it, the return after the loop included
GetBars ==
    /\ pc = "closing"
    /\ replay.state = "loop"
    /\ replay.attempt < maxAttempts
    /\ \E response \in BarsResponses :
          LET lookups == Append(replay.lookups,
                                [day |-> replay.currentDate, response |-> response])
          IN  IF response = "bars"
              THEN replay' = [replay EXCEPT !.state = "returned", !.lookups = lookups,
                                            !.closingPrice = CloseOf(replay.currentDate)]
              ELSE replay' = [replay EXCEPT
                                 !.lookups = lookups,
                                 !.currentDate = NextDayOf(@),
                                 !.attempt = @ + 1,
                                 !.state = IF replay.attempt + 1 < maxAttempts
                                           THEN "loop" ELSE "failed",
                                 !.err = IF replay.attempt + 1 < maxAttempts
                                         THEN "" ELSE "no data found"]
    /\ UNCHANGED <<signals, balance, positions, currentDate, tickerData, order, pc, lastOp,
                   deposits, external, call, procs, mu, bot>>

SpecClosing == InitClosing /\ [][GetBars]_vars

(* The three exit-simulation functions called twice with the same arguments, with
   the ledger changing between the two calls.  replay.first and replay.second are
   what the calls returned, with the locals of the replays at their return. *)

PureStaggerPercents == {80}

\* what one call of each of the three functions returns
Strategies(initialPrice, dailyPrices, takeProfitPct, trailingStopPct, staggerPercent) ==
    [ trailing |-> simulateTrailingStop(initialPrice, dailyPrices, takeProfitPct,
                                        trailingStopPct),
      simple   |-> simulateSimpleTrailingStop(initialPrice, dailyPrices, trailingStopPct),
      dip      |-> detectDip(initialPrice, dailyPrices, staggerPercent) ]

InitTwice ==
    /\ signals = << >>
    /\ balance \in LedgerBalances
    /\ positions = [t \in Tickers |-> NoPosition]
    /\ currentDate = 0
    /\ tickerData = [t \in Tickers |-> NoQuote]
    /\ order = {}
    /\ pc = "twice"
    /\ lastOp = NoOp
    /\ deposits = 0
    /\ external = 0
    /\ call = NoCall
    /\ procs = << >>
    /\ mu = Unlocked
    /\ bot = NoBot
    /\ \E initialPrice \in ReplayEntries, dailyPrices \in SeqsUpTo(ReplayPrices, MaxDipDays),
          takeProfitPct \in ReplayTakeProfitPcts, trailingStopPct \in ReplayStopPcts,
          staggerPercent \in PureStaggerPercents :
          replay = [state |-> "called", initialPrice |-> initialPrice,
                    dailyPrices |-> dailyPrices, takeProfitPct |-> takeProfitPct,
                    trailingStopPct |-> trailingStopPct, staggerPercent |-> staggerPercent]

\* the first calls return
CallStrategies ==
    /\ pc = "twice"
    /\ replay.state = "called"
    /\ replay' = [state |-> "once", initialPrice |-> replay.initialPrice,
                  dailyPrices |-> replay.dailyPrices,
                  takeProfitPct |-> replay.takeProfitPct,
                  trailingStopPct |-> replay.trailingStopPct,
                  staggerPercent |-> replay.staggerPercent,
                  first |-> Strategies(replay.initialPrice, replay.dailyPrices,
                                       replay.takeProfitPct, replay.trailingStopPct,
                                       replay.staggerPercent)]
    /\ UNCHANGED <<signals, balance, positions, currentDate, tickerData, order, pc, lastOp,
                   deposits, external, call, procs, mu, bot>>

\* between the calls the ledger takes a deposit or pays for a purchase
LedgerMoves ==
    /\ pc = "twice"
    /\ replay.state = "once"
    /\ \E amount \in LedgerBalances \ {balance} : balance' = amount
    /\ UNCHANGED <<signals, positions, currentDate, tickerData, order, pc, lastOp,
                   deposits, external, call, procs, mu, replay, bot>>

\* second calls whose simple replay starts from the locals the first call left
CallStrategiesAgainKeepingLocals ==
    /\ pc = "twice"
    /\ replay.state = "once"
    /\ replay' = [state |-> "twice", initialPrice |-> replay.initialPrice,
                  dailyPrices |-> replay.dailyPrices,
                  takeProfitPct |-> replay.takeProfitPct,
                  trailingStopPct |-> replay.trailingStopPct,
                  staggerPercent |-> replay.staggerPercent,
                  first |-> replay.first,
                  second |-> [Strategies(replay.initialPrice, replay.dailyPrices,
                                         replay.takeProfitPct, replay.trailingStopPct,
                                         replay.staggerPercent)
                                EXCEPT !.simple =
                                    TrailingLoop(replay.initialPrice, replay.dailyPrices,
                                                 replay.trailingStopPct, 1,
                                                 [replay.first.simple
                                                    EXCEPT !.stopped = FALSE])]]
    /\ UNCHANGED <<signals, balance, positions, currentDate, tickerData, order, pc, lastOp,
                   deposits, external, call, procs, mu, bot>>

\* the second calls, with the same arguments, return
CallStrategiesAgain ==
    /\ pc = "twice"
    /\ replay.state = "once"
    /\ replay' = [state |-> "twice", initialPrice |-> replay.initialPrice,
                  dailyPrices |-> replay.dailyPrices,
                  takeProfitPct |-> replay.takeProfitPct,
                  trailingStopPct |-> replay.trailingStopPct,
                  staggerPercent |-> replay.staggerPercent,
                  first |-> replay.first,
                  second |-> Strategies(replay.initialPrice, replay.dailyPrices,
                                        replay.takeProfitPct, replay.trailingStopPct,
                                        replay.staggerPercent)]
    /\ UNCHANGED <<signals, balance, positions, currentDate, tickerData, order, pc, lastOp,
                   deposits, external, call, procs, mu, bot>>

NextTwice == CallStrategies \/ LedgerMoves \/ CallStrategiesAgain

SpecTwice == InitTwice /\ [][NextTwice]_vars

----------------------------------------------------------------------------
(* The live trading bot: TradingBot.Run over the DynamoDB table and the       *)
(* Alpaca brokerage. Money is in cents, share counts in thousandths of a      *)
(* share, dates in days; the float64 arithmetic of the code is exact on the   *)
(* inputs used here.                                                          *)

\* Config defaults of loadConfigFromEnv
MaxSignalsPerWindow     == 39
WindowDurationDays      == 90
DefaultAllocationAmount == 1000

\* invocations of the Lambda handler in one behaviour
MaxRuns == 2

Cents(dollars) == dollars * 100
PerShare == 1000

\* the days the clock can show, the brokerage's account values and quotes
LiveDates         == {1, 2, 91, 92}
LiveAccountValues == {Cents(3900), Cents(7800)}
LiveAsks          == {Cents(40)}
LiveBids          == {Cents(40)}
LivePositions     == {0, 5 * PerShare}
LiveResponses     == {"ok", "zero", "error"}

SignalStatusPending   == "PENDING"
SignalStatusBought    == "BOUGHT"
SignalStatusCompleted == "COMPLETED"

\* tb.allocationWindow == nil
NoWindow == [isNil |-> TRUE, WindowStartDate |-> 0, WindowEndDate |-> 0,
             AccountValue |-> 0, AllocationPerSignal |-> 0,
             TotalSignalsInWindow |-> 0]

\* the signal the Discord command stores: Pending, bought today, nothing filled
StoredSignal(uuid, ticker, buyDate, sellDate) ==
    [UUID |-> uuid, Ticker |-> ticker, BuyDate |-> buyDate, SellDate |-> sellDate,
     Status |-> SignalStatusPending, NumStocks |-> 0, BuyPrice |-> 0]

\* the table item of a signal: its key is made from the status it has when saved
SignalItem(signal) ==
    [PK |-> "SIGNAL#" \o signal.Status, SK |-> signal.UUID, Data |-> signal]

\* PutItem / PutRequest: the item replaces the one with the same key, if any
PutItem(items, item) ==
    {x \in items : ~(x.PK = item.PK /\ x.SK = item.SK)} \cup {item}

RECURSIVE PutAll(_, _)
PutAll(items, sigs) ==
    IF sigs = << >> THEN items
    ELSE PutAll(PutItem(items, SignalItem(Head(sigs))), Tail(sigs))

\* the signals stored before the first run
StoredSignals ==
    {SignalItem(StoredSignal(1, "AAA", 1, 2)), SignalItem(StoredSignal(2, "BBB", 2, 92))}

\* the items of one partition, in the order of their sort keys
BySortKey(S) ==
    CHOOSE f \in [1..Cardinality(S) -> S] :
        \A a, b \in 1..Cardinality(S) : a < b => f[a].SK < f[b].SK

Partition(items, pk) == {x \in items : x.PK = pk}

\* Scan: partition after partition, each in the order of its sort keys; which
\* partition comes first depends on the hash of its key
Scan(items, pendingFirst) ==
    LET pending == BySortKey(Partition(items, "SIGNAL#" \o SignalStatusPending))
        bought  == BySortKey(Partition(items, "SIGNAL#" \o SignalStatusBought))
    IN  IF pendingFirst THEN pending \o bought ELSE bought \o pending

\* the filter of loadData
RECURSIVE ActiveSignals(_)
ActiveSignals(sigs) ==
    IF sigs = << >> THEN << >>
    ELSE IF Head(sigs).Status \in {SignalStatusPending, SignalStatusBought}
         THEN <<Head(sigs)>> \o ActiveSignals(Tail(sigs))
         ELSE ActiveSignals(Tail(sigs))

\* LoadAllData: the signals of the scanned items
LoadAllData(items, pendingFirst) ==
    LET scan == Scan(items, pendingFirst)
    IN  [k \in DOMAIN scan |-> scan[k].Data]

\* the filter of saveData
RECURSIVE NotCompleted(_)
NotCompleted(sigs) ==
    IF sigs = << >> THEN << >>
    ELSE IF Head(sigs).Status # SignalStatusCompleted
         THEN <<Head(sigs)>> \o NotCompleted(Tail(sigs))
         ELSE NotCompleted(Tail(sigs))

\* SaveAllData: one put per signal, one for the window if there is one
SaveAllData(db, sigs, window) ==
    [items  |-> PutAll(db.items, sigs),
     window |-> IF window.isNil THEN db.window ELSE window]

\* math.Round(x*100)/100 of a price given in hundredths of a cent
RoundCents(x) == (x + 50) \div 100

\* math.Floor of a share count
FloorShares(shares) == (shares \div PerShare) * PerShare

\* AlpacaService.BuyStock: the order placed for an allocation, or an error
BuyStock(ticker, allocation, quote) ==
    LET shares  == (allocation * PerShare) \div quote.ask
        whole   == IF quote.fractionable THEN shares ELSE FloorShares(shares)
        limit   == RoundCents(quote.ask * 99)
        none    == [err |-> "", placed |-> FALSE, Qty |-> 0, LimitPrice |-> 0]
    IN  IF shares <= 0 THEN [none EXCEPT !.err = "allocation amount is too small"]
        ELSE IF whole <= 0 THEN [none EXCEPT !.err = "results in 0 shares"]
        ELSE IF quote.response = "error"
             THEN [none EXCEPT !.err = "failed to place buy order"]
        ELSE [err |-> "", placed |-> TRUE,
              Qty |-> IF quote.response = "zero" THEN 0 ELSE whole,
              LimitPrice |-> limit]

\* AlpacaService.SellStock: the order placed for a quantity, or an error
SellStock(ticker, quantity, quote) ==
    LET none == [err |-> "", placed |-> FALSE, Qty |-> 0, LimitPrice |-> 0]
    IN  IF quote.position < quantity
        THEN [none EXCEPT !.err = "insufficient shares to sell"]
        ELSE IF quote.response = "error"
             THEN [none EXCEPT !.err = "failed to place sell order"]
        ELSE [err |-> "", placed |-> TRUE, Qty |-> quantity,
              LimitPrice |-> RoundCents(quote.bid * 101)]

NoOrder == [err |-> "", placed |-> FALSE, Qty |-> 0, LimitPrice |-> 0]

\* processPendingSignal marking the signal Bought whatever share count the order reports
processPendingSignalAnyShares(signal, allocationPerSignal, today, quote) ==
    IF today < signal.BuyDate
    THEN [signal |-> signal, err |-> "", order |-> NoOrder]
    ELSE LET o == BuyStock(signal.Ticker, allocationPerSignal, quote)
         IN  IF o.err # ""
             THEN [signal |-> signal, err |-> "failed to buy stock", order |-> o]
             ELSE [signal |-> [signal EXCEPT !.NumStocks = o.Qty,
                                             !.BuyPrice = o.LimitPrice,
                                             !.Status = SignalStatusBought],
                   err |-> "", order |-> o]

\* processPendingSignal: the signal afterwards, the error returned, the order
processPendingSignal(signal, allocationPerSignal, today, quote) ==
    IF today < signal.BuyDate
    THEN [signal |-> signal, err |-> "", order |-> NoOrder]
    ELSE LET o == BuyStock(signal.Ticker, allocationPerSignal, quote)
         IN  IF o.err # ""
             THEN [signal |-> signal, err |-> "failed to buy stock", order |-> o]
             ELSE IF o.Qty > 0
                  THEN [signal |-> [signal EXCEPT !.NumStocks = o.Qty,
                                                  !.BuyPrice = o.LimitPrice,
                                                  !.Status = SignalStatusBought],
                        err |-> "", order |-> o]
                  ELSE [signal |-> signal, err |-> "", order |-> o]

\* processBoughtSignal marking the signal Completed although the sell failed
processBoughtSignalCompletesOnError(signal, today, quote) ==
    IF today < signal.SellDate
    THEN [signal |-> signal, err |-> "", order |-> NoOrder]
    ELSE LET o == SellStock(signal.Ticker, signal.NumStocks, quote)
         IN  [signal |-> [signal EXCEPT !.Status = SignalStatusCompleted],
              err |-> IF o.err # "" THEN "failed to sell stock" ELSE "", order |-> o]

\* processBoughtSignal
processBoughtSignal(signal, today, quote) ==
    IF today < signal.SellDate
    THEN [signal |-> signal, err |-> "", order |-> NoOrder]
    ELSE LET o == SellStock(signal.Ticker, signal.NumStocks, quote)
         IN  IF o.err # ""
             THEN [signal |-> signal, err |-> "failed to sell stock", order |-> o]
             ELSE [signal |-> [signal EXCEPT !.Status = SignalStatusCompleted],
                   err |-> "", order |-> o]

\* processSignal
processSignal(signal, allocationPerSignal, today, quote) ==
    IF signal.Status = SignalStatusPending
    THEN processPendingSignal(signal, allocationPerSignal, today, quote)
    ELSE IF signal.Status = SignalStatusBought
    THEN processBoughtSignal(signal, today, quote)
    ELSE [signal |-> signal, err |-> "", order |-> NoOrder]

\* the test of updateAllocationWindow taking the end date itself as expired
WindowExpiredOnEndDate(window, today) ==
    window.isNil \/ today >= window.WindowEndDate

\* the test of updateAllocationWindow: no window, or the window has expired
WindowExpired(window, today) ==
    window.isNil \/ today > window.WindowEndDate

\* the window updateAllocationWindow builds
NewAllocationWindow(today, accountValue) ==
    [isNil |-> FALSE, WindowStartDate |-> today,
     WindowEndDate |-> today + WindowDurationDays,
     AccountValue |-> accountValue,
     AllocationPerSignal |-> accountValue \div MaxSignalsPerWindow,
     TotalSignalsInWindow |-> MaxSignalsPerWindow]

\* getAllocationPerSignal, with the fallback of Run
getAllocationPerSignal(window) ==
    IF window.isNil THEN Cents(DefaultAllocationAmount) ELSE window.AllocationPerSignal

Quotes ==
    [ask : LiveAsks, bid : LiveBids, fractionable : BOOLEAN,
     position : LivePositions, response : LiveResponses]

\* the table as the Discord command left it, the bot not yet invoked
InitLive ==
    /\ signals = << >>
    /\ balance = 0
    /\ positions = [t \in Tickers |-> NoPosition]
    /\ currentDate = 0
    /\ tickerData = [t \in Tickers |-> NoQuote]
    /\ order = {}
    /\ pc = "live"
    /\ lastOp = NoOp
    /\ deposits = 0
    /\ external = 0
    /\ call = NoCall
    /\ procs = << >>
    /\ mu = Unlocked
    /\ replay = NoReplay
    /\ \E d \in LiveDates, pendingFirst \in BOOLEAN :
         bot = [state |-> "idle", now |-> d, runs |-> 0, pendingFirst |-> pendingFirst,
                db |-> [items |-> StoredSignals, window |-> NoWindow],
                signals |-> << >>, allocationWindow |-> NoWindow,
                allocationPerSignal |-> 0, i |-> 0,
                processedCount |-> 0, errorCount |-> 0,
                orders |-> << >>, accountValue |-> 0, result |-> ""]

LiveFrame ==
    UNCHANGED <<signals, balance, positions, currentDate, tickerData, order, pc, lastOp,
                deposits, external, call, procs, mu, replay>>

\* time passes: time.Now() shows a later day
Tick ==
    /\ pc = "live"
    /\ \E d \in LiveDates :
         /\ d > bot.now
         /\ bot' = [bot EXCEPT !.now = d]
    /\ LiveFrame

\* the handler is invoked: NewTradingBot
Invoke ==
    /\ pc = "live"
    /\ bot.state = "idle"
    /\ bot.runs < MaxRuns
    /\ bot' = [bot EXCEPT !.state = "load", !.runs = @ + 1,
                          !.signals = << >>, !.allocationWindow = NoWindow,
                          !.allocationPerSignal = 0, !.i = 0,
                          !.processedCount = 0, !.errorCount = 0,
                          !.accountValue = 0, !.orders = << >>,
                          !.result = ""]
    /\ LiveFrame

\* Run: loadData
LoadData ==
    /\ pc = "live"
    /\ bot.state = "load"
    /\ \/ bot' = [bot EXCEPT !.state = "idle", !.result = "failed to load data"]
       \/ bot' = [bot EXCEPT !.state = "window",
                             !.signals = ActiveSignals(LoadAllData(bot.db.items,
                                                                   bot.pendingFirst)),
                             !.allocationWindow = bot.db.window]
    /\ LiveFrame

\* Run: updateAllocationWindow, then getAllocationPerSignal
UpdateAllocationWindow ==
    /\ pc = "live"
    /\ bot.state = "window"
    /\ IF WindowExpired(bot.allocationWindow, bot.now)
       THEN \/ bot' = [bot EXCEPT !.state = "idle",
                                  !.result = "failed to get account value"]
            \/ \E v \in LiveAccountValues :
                 LET w == NewAllocationWindow(bot.now, v)
                 IN  bot' = [bot EXCEPT !.state = "loop", !.i = 1,
                                        !.accountValue = v,
                                        !.allocationWindow = w,
                                        !.allocationPerSignal = getAllocationPerSignal(w)]
       ELSE bot' = [bot EXCEPT !.state = "loop", !.i = 1,
                               !.allocationPerSignal =
                                   getAllocationPerSignal(bot.allocationWindow)]
    /\ LiveFrame

\* Run: one iteration of the loop over tb.signals
ProcessSignal ==
    /\ pc = "live"
    /\ bot.state = "loop"
    /\ bot.i <= Len(bot.signals)
    /\ \E quote \in Quotes :
         LET r == processSignal(bot.signals[bot.i], bot.allocationPerSignal,
                                bot.now, quote)
         IN  bot' = [bot EXCEPT !.signals[bot.i] = r.signal,
                                !.i = @ + 1,
                                !.errorCount = IF r.err # "" THEN @ + 1 ELSE @,
                                !.processedCount = IF r.err = "" THEN @ + 1 ELSE @,
                                !.orders = IF r.order.placed
                                           THEN Append(@, [side |-> IF bot.signals[bot.i].Status
                                                                       = SignalStatusPending
                                                                    THEN "buy" ELSE "sell",
                                                           ticker |-> r.signal.Ticker,
                                                           qty |-> r.order.Qty,
                                                           limitPrice |-> r.order.LimitPrice,
                                                           allocation |-> bot.allocationPerSignal])
                                           ELSE @]
    /\ LiveFrame

\* Run: saveData, and the return of Run
SaveData ==
    /\ pc = "live"
    /\ bot.state = "loop"
    /\ bot.i > Len(bot.signals)
    /\ \/ bot' = [bot EXCEPT !.state = "idle", !.result = "failed to save data"]
       \/ bot' = [bot EXCEPT !.state = "idle", !.result = "ok",
                             !.db = SaveAllData(bot.db, NotCompleted(bot.signals),
                                                bot.allocationWindow)]
    /\ LiveFrame

NextLive ==
    \/ Tick
    \/ Invoke
    \/ LoadData
    \/ UpdateAllocationWindow
    \/ ProcessSignal
    \/ SaveData

SpecLive == InitLive /\ [][NextLive]_vars

\* the two drivers of the signal state machines: backtest ticks and live runs
InitDrivers == Init \/ InitLive
NextDrivers == Next \/ NextLive
SpecDrivers == InitDrivers /\ [][NextDrivers]_vars

\* a backtest in which one tick has a dip buy and an initial buy due together:
\* signal 0 is bought on day 5 and can dip-buy from day 10 on, signal 1 is due
\* on day 12
SameTickSets ==
    { [i \in {0, 1} |->
          IF i = 0 THEN NewSignal("X", 5, 13, 20)
          ELSE NewSignal(t, 12, 13, 20)] : t \in Tickers }

InitSameTick ==
    /\ signals \in SameTickSets
    /\ balance = NewFromInt(InitialBalance)
    /\ positions = [t \in Tickers |-> NoPosition]
    /\ currentDate = EarliestBuyDate(signals)
    /\ tickerData = [t \in Tickers |-> NoQuote]
    /\ order = {}
    /\ pc = "day"
    /\ lastOp = NoOp
    /\ deposits = NewFromInt(InitialBalance)
    /\ external = 0
    /\ call = NoCall
    /\ procs = << >>
    /\ mu = Unlocked
    /\ replay = NoReplay
    /\ bot = NoBot

SpecSameTick == InitSameTick /\ [][Next]_vars

\* a ledger is used by a backtest run, by a run whose tick has an initial buy and
\* a dip buy, or by a session of direct calls
InitCash == InitOrders \/ InitSameTick

SpecCash == InitCash /\ [][NextOrders]_vars

----------------------------------------------------------------------------
(* Properties *)

\* the step is the visit of signal i by the range loop of Engine.Run
Visited(i) == pc = "run" /\ i \in order /\ i \notin order'

QuoteOf(i) == tickerData[signals[i].Ticker]

\* the sum of the quantities of the lots of signal i
LotsQuantity(i) ==
    signals[i].InitialTrade.Quantity
      + SumOver([k \in DOMAIN signals[i].DipTrades |-> signals[i].DipTrades[k].Quantity],
                DOMAIN signals[i].DipTrades)

\* C1 (first part): a Pending signal becomes Active in a step exactly when the step
\* visits it on or after its BuyDate, a quote exists and the ledger has the cash
\* for the order; InitialTrade then holds the tick date, the quote price, the
\* allocation amount as Cost and allocation / price as Quantity.
C1_BuyTransition ==
    \A i \in DOMAIN signals :
        LET s     == signals[i]
            q     == QuoteOf(i)
            alloc == CalculateAllocationAmount(signals, balance, positions, currentDate, i)
            becomesActive == s.Status = StatusPending /\ signals'[i].Status = StatusActive
        IN  /\ becomesActive <=>
                  /\ s.Status = StatusPending
                  /\ Visited(i)
                  /\ currentDate >= s.BuyDateTime
                  /\ q # NoQuote
                  /\ balance >= Mul(Div(alloc, q.Price), q.Price)
            /\ becomesActive =>
                  signals'[i].InitialTrade =
                      [ BuyDateTime  |-> currentDate, SellDateTime |-> ZeroTime,
                        BuyPrice     |-> q.Price,     SellPrice    |-> 0,
                        Cost         |-> alloc,       Proceeds     |-> 0,
                        ProfitLoss   |-> 0,           Quantity     |-> Div(alloc, q.Price) ]

\* C1 (second part): no step of a tick changes a Pending signal whose BuyDate is
\* after the tick date.
C1_NotDueUnchanged ==
    \A i \in DOMAIN signals :
        (pc = "run" /\ signals[i].Status = StatusPending
            /\ signals[i].BuyDateTime > currentDate) => signals'[i] = signals[i]

\* C1 (the transition alone): every step of every run obeys C1_BuyTransition.
C1_Transition == [][C1_BuyTransition]_vars

\* C1: a Pending signal becomes Active in a tick if and only if the tick date is on
\* or after its BuyDate, a quote for its ticker exists in that tick and the ledger
\* buy succeeds, InitialTrade then recording tick date, quote price, allocation
\* amount and allocation / price; a Pending signal whose BuyDate is after the tick
\* date is left unchanged by the tick.
C1_PendingToActive == [][C1_BuyTransition /\ C1_NotDueUnchanged]_vars

\* a Pending signal was visited before its BuyDate, on a day with a quote
C1_Witness ==
    \E i \in DOMAIN signals :
        /\ pc = "run" /\ lastOp.id = i /\ lastOp.op = "none"
        /\ signals[i].Status = StatusPending
        /\ signals[i].BuyDateTime > currentDate
        /\ QuoteOf(i) # NoQuote

\* C2: an exit that is due (Active, tick date on or after SellDate, quote present,
\* the ledger holding at least the signal's lots) sells the sum of the lots in one
\* ledger order at the quote price, makes the signal Sold and gives every lot
\* Proceeds = its own Quantity x price and ProfitLoss = Proceeds - its own Cost;
\* the proceeds of the lots add up to the cash credited.
C2_Exit ==
    [][\A i \in DOMAIN signals :
          LET s == signals[i]
              t == s.Ticker
              closed(old) == [old EXCEPT !.SellDateTime = currentDate,
                                         !.SellPrice    = QuoteOf(i).Price,
                                         !.Proceeds     = Mul(old.Quantity, QuoteOf(i).Price),
                                         !.ProfitLoss   = Mul(old.Quantity, QuoteOf(i).Price)
                                                            - old.Cost]
          IN  ( /\ Visited(i)
                /\ s.Status = StatusActive
                /\ currentDate >= s.SellDateTime
                /\ QuoteOf(i) # NoQuote
                /\ positions[t] # NoPosition
                /\ positions[t].Shares >= LotsQuantity(i) )
              =>
              ( /\ signals'[i].Status = StatusSold
                /\ balance' = balance + Mul(LotsQuantity(i), QuoteOf(i).Price)
                /\ positions' =
                     [positions EXCEPT ![t] =
                         IF @.Shares = LotsQuantity(i) THEN NoPosition
                         ELSE [@ EXCEPT !.Shares = @ - LotsQuantity(i)]]
                /\ signals'[i].InitialTrade = closed(s.InitialTrade)
                /\ Len(signals'[i].DipTrades) = Len(s.DipTrades)
                /\ \A k \in DOMAIN s.DipTrades :
                       signals'[i].DipTrades[k] = closed(s.DipTrades[k])
                /\ signals'[i].InitialTrade.Proceeds
                     + SumOver([k \in DOMAIN s.DipTrades |-> signals'[i].DipTrades[k].Proceeds],
                               DOMAIN s.DipTrades)
                     = balance' - balance )
    ]_vars

\* a signal with a dip lot has just been sold
C2_Witness ==
    \E i \in DOMAIN signals :
        /\ lastOp = [id |-> i, op |-> "sell", err |-> ""]
        /\ signals[i].Status = StatusSold
        /\ Len(signals[i].DipTrades) >= 1

StatusRank(status) ==
    IF status = StatusPending THEN 0 ELSE IF status = StatusActive THEN 1 ELSE 2

\* C3: once a signal is Sold, no step changes its status, its InitialTrade or its
\* DipTrades; a status only moves Pending -> Active -> Sold.
C3_SoldIsFinal ==
    [][\A i \in DOMAIN signals :
          /\ signals[i].Status = StatusSold =>
                /\ signals'[i].Status = StatusSold
                /\ signals'[i].InitialTrade = signals[i].InitialTrade
                /\ signals'[i].DipTrades = signals[i].DipTrades
          /\ StatusRank(signals'[i].Status) - StatusRank(signals[i].Status) \in {0, 1}
    ]_vars

\* a Sold signal was visited on a later tick that carries a quote for its ticker
C3_Witness ==
    \E i \in DOMAIN signals :
        /\ pc = "run" /\ lastOp.id = i
        /\ signals[i].Status = StatusSold
        /\ signals[i].InitialTrade.SellDateTime < currentDate
        /\ QuoteOf(i) # NoQuote


\* the percentages of the live signals added up, and the ledger's account value
LiveWeight ==
    SumOver([i \in DOMAIN signals |-> signals[i].AllocationPercentage],
            {i \in DOMAIN signals : signals[i].Status \in {StatusPending, StatusActive}})

AccountValue ==
    balance + SumOver([t \in Tickers |-> Mul(positions[t].Shares, positions[t].AvgBuyPrice)],
                      {t \in Tickers : positions[t] # NoPosition})

\* the integer a decimal holds (percentages are whole numbers)
IntPart(d) == d \div NewFromInt(1)

C5_AllocationsWithinAccountValue ==
    SumOver([i \in DOMAIN signals |->
                WeightedAllocation(signals[i].AllocationPercentage, LiveWeight, AccountValue)],
            {i \in DOMAIN signals : signals[i].Status \in {StatusPending, StatusActive}})
        <= AccountValue

C7_DipCost ==
    [][\A i \in DOMAIN signals :
          /\ \A k \in DOMAIN signals'[i].DipTrades :
                 signals'[i].DipTrades[k].Cost = signals'[i].InitialTrade.Cost
          /\ (Visited(i) /\ lastOp'.op = "dip" /\ lastOp'.err = "") =>
                 /\ Len(signals'[i].DipTrades) = Len(signals[i].DipTrades) + 1
                 /\ SubSeq(signals'[i].DipTrades, 1, Len(signals[i].DipTrades))
                      = signals[i].DipTrades
                 /\ signals'[i].Status = StatusActive
                 /\ signals'[i].InitialTrade = signals[i].InitialTrade
    ]_vars

\* a dip buy has just been made with more money deposited than at the initial buy
C7_Witness ==
    /\ lastOp.op = "dip" /\ lastOp.err = ""
    /\ deposits > NewFromInt(InitialBalance)
    /\ AccountValue # NewFromInt(InitialBalance)

C9_PositionMismatch ==
    [][\A i \in DOMAIN signals :
          ( /\ Visited(i)
            /\ signals[i].Status = StatusActive
            /\ currentDate >= signals[i].SellDateTime
            /\ QuoteOf(i) # NoQuote
            /\ \/ positions[signals[i].Ticker] = NoPosition
               \/ positions[signals[i].Ticker].Shares < LotsQuantity(i) )
          =>
          ( /\ lastOp'.op = "sell"
            /\ lastOp'.err \notin {"", "no quote"}
            /\ signals' = signals
            /\ balance' = balance
            /\ positions' = positions )
    ]_vars

\* an exit has just failed on a position that holds fewer shares than the signal
C9_Witness ==
    /\ lastOp.op = "sell"
    /\ lastOp.err = "insufficient shares in account"
    /\ signals[lastOp.id].Status = StatusActive

\* an exit has just failed on a missing position
C9_WitnessNoPosition ==
    /\ lastOp.op = "sell"
    /\ lastOp.err = "position not found in account"

\* C10: a visit of a signal whose buy or sell is due on a tick without a quote for
\* its ticker changes neither the signals nor the ledger and does not end the
\* run; on any tick that carries a quote the due buy is made if the ledger has
\* the cash and the due sell is made if the ledger holds the shares.
C10_MissingQuote ==
    [][\A i \in DOMAIN signals :
          Visited(i) =>
             LET s       == signals[i]
                 dueBuy  == s.Status = StatusPending /\ currentDate >= s.BuyDateTime
                 dueSell == s.Status = StatusActive /\ currentDate >= s.SellDateTime
                 alloc   == CalculateAllocationAmount(signals, balance, positions,
                                                      currentDate, i)
             IN  /\ ((dueBuy \/ dueSell) /\ QuoteOf(i) = NoQuote) =>
                       /\ signals' = signals
                       /\ balance' = balance
                       /\ positions' = positions
                       /\ lastOp'.err = "no quote"
                       /\ pc' = "run"
                 /\ (dueBuy /\ QuoteOf(i) # NoQuote
                       /\ balance >= Mul(Div(alloc, QuoteOf(i).Price), QuoteOf(i).Price)) =>
                       signals'[i].Status = StatusActive
                 /\ (dueSell /\ QuoteOf(i) # NoQuote
                       /\ positions[s.Ticker] # NoPosition
                       /\ positions[s.Ticker].Shares >= LotsQuantity(i)) =>
                       signals'[i].Status = StatusSold
    ]_vars

\* a buy has just been made on a day after the buy date, by a signal whose order
\* the ledger could always pay: the buy date itself carried no quote
C10_Witness ==
    /\ lastOp.op = "buy" /\ lastOp.err = ""
    /\ signals[lastOp.id].AllocationPercentage = NewFromInt(20)
    /\ Cardinality(DOMAIN signals) = 1
    /\ currentDate > signals[lastOp.id].BuyDateTime


\* the trades of signal i: the initial trade and the dip trades
Lots(i) == <<signals[i].InitialTrade>> \o signals[i].DipTrades

\* C11: in a run with one signal, once the signal is Sold the sum over its trades
\* of Proceeds - Cost is the ledger's account value minus everything deposited
\* (the initial balance included).
C11_ProfitLossIsAccountGain ==
    \A i \in DOMAIN signals :
        (Cardinality(DOMAIN signals) = 1 /\ signals[i].Status = StatusSold) =>
            SumOver([k \in DOMAIN Lots(i) |-> Lots(i)[k].Proceeds - Lots(i)[k].Cost],
                    DOMAIN Lots(i))
              = AccountValue - deposits

\* C11 (with the cash paid in place of Cost): in a run with one signal, once the
\* signal is Sold the sum over its trades of Proceeds - Quantity x BuyPrice is the
\* ledger's account value minus everything deposited.
C11_ProfitLossFromFills ==
    \A i \in DOMAIN signals :
        (Cardinality(DOMAIN signals) = 1 /\ signals[i].Status = StatusSold) =>
            SumOver([k \in DOMAIN Lots(i) |->
                        Lots(i)[k].Proceeds - Mul(Lots(i)[k].Quantity, Lots(i)[k].BuyPrice)],
                    DOMAIN Lots(i))
              = AccountValue - deposits

\* the one signal of a run is Sold, with a dip lot, after a weekly deposit
C11_Witness ==
    \E i \in DOMAIN signals :
        /\ Cardinality(DOMAIN signals) = 1
        /\ signals[i].Status = StatusSold
        /\ Len(signals[i].DipTrades) >= 1
        /\ deposits > NewFromInt(InitialBalance)


\* the step is a sell of signal i that the ledger executed
SoldNow(i) ==
    Visited(i) /\ signals[i].Status = StatusActive /\ signals'[i].Status = StatusSold

\* every one of the N+1 trades of signal i has its sell leg, written on this tick
AllLotsClosed(i) ==
    /\ signals'[i].InitialTrade.SellDateTime = currentDate
    /\ Len(signals'[i].DipTrades) = Len(signals[i].DipTrades)
    /\ \A k \in DOMAIN signals'[i].DipTrades :
           signals'[i].DipTrades[k].SellDateTime = currentDate

\* C12 (as stated): when a signal with N dip trades is sold, N+1 trades are closed,
\* their total quantity is the ledger's share count for the ticker at sale time,
\* and the sale deletes the ledger's position for the ticker.
C12_RoundTrip ==
    [][\A i \in DOMAIN signals :
          SoldNow(i) =>
             /\ AllLotsClosed(i)
             /\ LotsQuantity(i) = positions[signals[i].Ticker].Shares
             /\ positions'[signals[i].Ticker] = NoPosition
    ]_vars

\* C12 (amended): the same, for a signal that is the only Active signal of its
\* ticker at sale time.
C12_RoundTripSoleHolder ==
    [][\A i \in DOMAIN signals :
          ( /\ SoldNow(i)
            /\ \A j \in DOMAIN signals \ {i} :
                  ~(signals[j].Ticker = signals[i].Ticker
                      /\ signals[j].Status = StatusActive) )
          =>
             /\ AllLotsClosed(i)
             /\ LotsQuantity(i) = positions[signals[i].Ticker].Shares
             /\ positions'[signals[i].Ticker] = NoPosition
    ]_vars

\* a signal with two dip trades has just been sold and its position is gone
C12_Witness ==
    \E i \in DOMAIN signals :
        /\ lastOp = [id |-> i, op |-> "sell", err |-> ""]
        /\ Len(signals[i].DipTrades) = 2
        /\ signals[i].DipTrades[2].SellDateTime = currentDate
        /\ positions[signals[i].Ticker] = NoPosition


\* the step is a direct call of the ledger's method op
Called(op) == external' = external + 1 /\ call'.op = op

\* C13: ExecuteBuyOrder(symbol, q, p) with cash >= q x p (equal included) succeeds,
\* takes exactly q x p from the cash, and makes the position Shares = q,
\* AvgBuyPrice = p if there was none, or else Shares = old + q and AvgBuyPrice =
\* (oldShares x oldAvg + q x p) / (oldShares + q) (the decimal quotient, within half
\* a unit of its last digit of the exact one); other symbols' positions are unchanged.
C13_LedgerBuy ==
    [][Called("ExecuteBuyOrder") =>
          LET symbol == call'.symbol
              q      == call'.quantity
              p      == call'.limitPrice
              old    == positions[symbol]
          IN  balance >= Mul(q, p) =>
                 /\ call'.err = ""
                 /\ balance' = balance - Mul(q, p)
                 /\ old = NoPosition =>
                       positions'[symbol] = [Shares |-> q, AvgBuyPrice |-> p]
                 /\ old # NoPosition =>
                       LET value == Mul(old.Shares, old.AvgBuyPrice) + Mul(q, p)
                       IN  /\ positions'[symbol].Shares = old.Shares + q
                           /\ positions'[symbol].AvgBuyPrice = Div(value, old.Shares + q)
                           /\ Abs(Mul(positions'[symbol].AvgBuyPrice, old.Shares + q) - value)
                                <= (old.Shares + q) \div (2 * Pow10(DivisionPrecision))
                 /\ \A other \in Tickers \ {symbol} : positions'[other] = positions[other]
    ]_vars

\* a buy into an existing position has just succeeded and moved its average price
\* to a price no order was made at
C13_Witness ==
    /\ call.op = "ExecuteBuyOrder" /\ call.err = ""
    /\ positions[call.symbol].Shares > call.quantity
    /\ positions[call.symbol].AvgBuyPrice \notin LedgerPrices

\* C14: ExecuteSellOrder(symbol, q, p) succeeds only if a position exists and holds
\* at least q shares; it then adds exactly q x p to the cash, takes q from the
\* shares and leaves AvgBuyPrice as it was, and removes the position exactly when
\* no share remains (GetPosition then reports "no position found").
C14_LedgerSell ==
    [][Called("ExecuteSellOrder") =>
          LET symbol == call'.symbol
              q      == call'.quantity
              p      == call'.limitPrice
              old    == positions[symbol]
          IN  call'.err = "" =>
                 /\ old # NoPosition
                 /\ old.Shares >= q
                 /\ balance' = balance + Mul(q, p)
                 /\ (positions'[symbol] = NoPosition) <=> (old.Shares - q = 0)
                 /\ positions'[symbol] # NoPosition =>
                       positions'[symbol] =
                          [Shares |-> old.Shares - q, AvgBuyPrice |-> old.AvgBuyPrice]
                 /\ positions'[symbol] = NoPosition =>
                       GetPosition(positions', symbol).err = "no position found"
                 /\ \A other \in Tickers \ {symbol} : positions'[other] = positions[other]
    ]_vars

\* a sell of every share held has just succeeded
C14_Witness ==
    /\ call.op = "ExecuteSellOrder" /\ call.err = ""
    /\ positions[call.symbol] = NoPosition

\* a sell of a part of the shares held has just succeeded
C14_WitnessPartial ==
    /\ call.op = "ExecuteSellOrder" /\ call.err = ""
    /\ positions[call.symbol] # NoPosition


\* C15: a rejected order leaves the ledger and the signal as they were.  A direct
\* buy with cash < q x p fails with "insufficient funds", a sell without a position
\* with "no position found", a sell of more shares than held with "insufficient
\* shares", and a failed call changes neither the cash nor any position; a visit of
\* Engine.Run whose order the ledger rejects changes neither the signals nor the
\* ledger, and a Pending signal that is due on a tick with a quote has its buy
\* attempted on that tick, so the rejected buy is attempted again.
C15_RejectedOrder ==
    [][/\ Called("ExecuteBuyOrder") =>
             /\ balance < Mul(call'.quantity, call'.limitPrice)
                   => call'.err = "insufficient funds"
             /\ call'.err # "" => (balance' = balance /\ positions' = positions)
       /\ Called("ExecuteSellOrder") =>
             /\ positions[call'.symbol] = NoPosition => call'.err = "no position found"
             /\ (positions[call'.symbol] # NoPosition
                   /\ positions[call'.symbol].Shares < call'.quantity)
                   => call'.err = "insufficient shares"
             /\ call'.err # "" => (balance' = balance /\ positions' = positions)
       /\ \A i \in DOMAIN signals :
             Visited(i) =>
                /\ lastOp'.err \in {"insufficient funds", "no position found",
                                    "insufficient shares"}
                      => (signals' = signals /\ balance' = balance /\ positions' = positions)
                /\ (signals[i].Status = StatusPending
                      /\ currentDate >= signals[i].BuyDateTime
                      /\ QuoteOf(i) # NoQuote)
                      => /\ lastOp'.op = "buy"
                         /\ (lastOp'.err = "insufficient funds") <=>
                               balance < Mul(Div(CalculateAllocationAmount(
                                                    signals, balance, positions,
                                                    currentDate, i),
                                                 QuoteOf(i).Price),
                                             QuoteOf(i).Price)
    ]_vars

\* the buy of a Pending signal has just been rejected for the second tick running
C15_Witness ==
    \E i \in DOMAIN signals :
        /\ lastOp = [id |-> i, op |-> "buy", err |-> "insufficient funds"]
        /\ signals[i].Status = StatusPending
        /\ currentDate > signals[i].BuyDateTime + 1

\* a direct buy has just been rejected
C15_WitnessBuy == call.op = "ExecuteBuyOrder" /\ call.err = "insufficient funds"

\* a direct sell has just been rejected for want of a position
C15_WitnessNoPosition == call.op = "ExecuteSellOrder" /\ call.err = "no position found"

\* a direct sell has just been rejected for want of shares
C15_WitnessShares == call.op = "ExecuteSellOrder" /\ call.err = "insufficient shares"


\* C16: in every ledger state GetAccountValue is the cash plus, over the open
\* positions, Shares x AvgBuyPrice (the average cost, whatever the day's quote);
\* AddDeposit(a), called directly or by the day loop on a Monday, adds exactly a to
\* the cash and to the account value and changes no position.
C16_AccountValue ==
    [][/\ GetAccountValue(balance, positions) = AccountValue
       /\ GetAccountValue(balance', positions') = AccountValue'
       /\ Called("AddDeposit") =>
             /\ balance' = balance + call'.amount
             /\ positions' = positions
             /\ AccountValue' = AccountValue + call'.amount
       /\ (pc = "day" /\ pc' = "run" /\ Weekday(currentDate) = Monday) =>
             /\ balance' = balance + NewFromInt(WeeklyDeposit)
             /\ positions' = positions
             /\ AccountValue' = AccountValue + NewFromInt(WeeklyDeposit)
    ]_vars

\* a deposit has just been made into a ledger that holds a position
C16_Witness ==
    /\ call.op = "AddDeposit"
    /\ \E t \in Tickers : positions[t] # NoPosition

\* inside a tick the ledger holds a position whose average cost is not the quote
C16_WitnessNotQuote ==
    \E t \in Tickers :
        /\ pc = "run"
        /\ positions[t] # NoPosition
        /\ tickerData[t] # NoQuote
        /\ tickerData[t].Price # positions[t].AvgBuyPrice


\* the goroutines of kind K that have returned without an error
Returned(K) == {p \in K : procs[p].pc = "done" /\ procs[p].err = ""}

\* the shares the ledger holds of the symbol the goroutines buy
HeldShares ==
    IF positions[ConcurrentSymbol] = NoPosition THEN 0
    ELSE positions[ConcurrentSymbol].Shares

\* C17: whatever the interleaving of the goroutines' steps, no update is lost:
\* whenever no writer is inside a method, the cash is the initial cash plus the
\* deposits of the AddDeposit calls that returned minus the cost of the
\* ExecuteBuyOrder calls that returned without error, and the shares are the sum of
\* the quantities of those buys; and the account value a concurrent reader gets is
\* the initial cash plus a number of whole deposits, never cash debited for a buy
\* whose shares it does not see.
C17_Atomic ==
    pc = "go" =>
       /\ (\A p \in Depositors \cup Buyers : procs[p].pc \in {"lock", "done"}) =>
             /\ balance = ConcurrentBalance
                            + Cardinality(Returned(Depositors)) * ConcurrentAmount
                            - Cardinality(Returned(Buyers))
                                 * Mul(ConcurrentQuantity, ConcurrentPrice)
             /\ HeldShares = Cardinality(Returned(Buyers)) * ConcurrentQuantity
       /\ \A r \in Readers :
             procs[r].pc \in {"runlock", "done"} =>
                \E d \in 0..NumDepositors :
                   procs[r].value = ConcurrentBalance + d * ConcurrentAmount

\* every goroutine has returned, one buy was rejected, and the reader ran after a
\* buy and a deposit
C17_Witness ==
    /\ pc = "go"
    /\ \A p \in Goroutines : procs[p].pc = "done"
    /\ \E p \in Buyers : procs[p].err = "insufficient funds"
    /\ \E p \in Buyers : procs[p].err = ""
    /\ \E r \in Readers : procs[r].value = ConcurrentBalance + ConcurrentAmount
                            /\ procs[r].tmp < procs[r].value


\* the highest of the entry price and the prices before day k
HighestBefore(k) ==
    Max({replay.initialPrice} \cup {replay.dailyPrices[j] : j \in 1..(k - 1)})

\* the days whose price is at or under (1 - stopPct) x the highest price before
StopDays ==
    {k \in 1..Len(replay.dailyPrices) :
        replay.dailyPrices[k] * 100 <= HighestBefore(k) * (100 - replay.trailingStopPct)}

\* the series of the scenario
ScenarioPrices == <<100, 120, 110, 101, 84>>

\* C18: the replay of a series that is not empty exits on the first day whose price
\* is at or under the stop level, (1 - stopPct) x the highest of the entry price and
\* the earlier prices, at that day's price, and at the last price of the series if
\* there is no such day; for entry 100, stopPct 15% and the series
\* [100,120,110,101,84] the stop rises to 102, the exit price is 101, maxGain is 20%
\* and maxDrawdown 0%.
C18_TrailingStop ==
    (replay.state = "returned" /\ Len(replay.dailyPrices) > 0) =>
        /\ StopDays # {} =>
              /\ replay.result.finalPrice = replay.dailyPrices[Min(StopDays)]
              /\ replay.result.exitStrategy = "Trailing stop hit"
              /\ replay.result.trailingStopLevel
                   = HighestBefore(Min(StopDays)) * (100 - replay.trailingStopPct)
        /\ StopDays = {} =>
              /\ replay.result.finalPrice = replay.dailyPrices[Len(replay.dailyPrices)]
              /\ replay.result.exitStrategy = "Held until sell date"
        /\ (replay.initialPrice = 100 /\ replay.trailingStopPct = 15
              /\ replay.dailyPrices = ScenarioPrices) =>
              /\ replay.result.highestPrice = 120
              /\ replay.result.trailingStopLevel = 102 * 100
              /\ replay.result.finalPrice = 101
              /\ replay.result.maxGain = 20
              /\ replay.result.maxDrawdown = 0

\* the replay of the scenario has returned
C18_Witness ==
    /\ replay.state = "returned"
    /\ replay.initialPrice = 100 /\ replay.trailingStopPct = 15
    /\ replay.dailyPrices = ScenarioPrices
    /\ replay.result.exitStrategy = "Trailing stop hit"

\* a replay has returned that held to the last day, after the stop was raised
C18_WitnessHeld ==
    /\ replay.state = "returned"
    /\ replay.result.exitStrategy = "Held until sell date"
    /\ replay.result.highestPrice > replay.initialPrice


\* the step is one iteration of the loop of TradingBot.Run, over tb.signals[bot.i]
Processed == pc = "live" /\ bot.state = "loop" /\ bot'.i = bot.i + 1

\* the step places an order of the given side, and the order it places
PlacesOrder(side) ==
    /\ Len(bot'.orders) = Len(bot.orders) + 1
    /\ bot'.orders[Len(bot'.orders)].side = side
PlacesNoOrder == bot'.orders = bot.orders
PlacedOrder == bot'.orders[Len(bot'.orders)]

\* C19: in a live run a Pending signal whose buy date has come becomes Bought
\* exactly when its buy order is placed and reports a positive share count, and
\* then NumStocks and BuyPrice are the order's quantity and limit price; a Bought
\* signal whose sell date has come becomes Completed exactly when a sell order
\* for its NumStocks is placed; a signal whose date is still ahead places no
\* order and keeps its status; no other signal and no other step of the run
\* changes a status.
C19_LiveStatus ==
    [][/\ Processed =>
            LET before == bot.signals[bot.i]
                after  == bot'.signals[bot.i]
            IN  /\ (before.Status = SignalStatusPending /\ before.BuyDate <= bot.now) =>
                       /\ after.Status \in {SignalStatusPending, SignalStatusBought}
                       /\ after.Status = SignalStatusBought
                              <=> (PlacesOrder("buy") /\ PlacedOrder.qty > 0)
                       /\ after.Status = SignalStatusBought =>
                              /\ after.NumStocks = PlacedOrder.qty
                              /\ after.BuyPrice = PlacedOrder.limitPrice
                /\ (before.Status = SignalStatusBought /\ before.SellDate <= bot.now) =>
                       /\ after.Status \in {SignalStatusBought, SignalStatusCompleted}
                       /\ after.Status = SignalStatusCompleted
                              <=> (PlacesOrder("sell") /\ PlacedOrder.qty = before.NumStocks)
                /\ (\/ before.Status = SignalStatusPending /\ before.BuyDate > bot.now
                    \/ before.Status = SignalStatusBought /\ before.SellDate > bot.now) =>
                       /\ PlacesNoOrder
                       /\ after = before
                /\ \A j \in DOMAIN bot.signals :
                       j # bot.i => bot'.signals[j] = bot.signals[j]
                /\ DOMAIN bot'.signals = DOMAIN bot.signals
       /\ (pc = "live" /\ ~Processed /\ bot.state \in {"window", "loop"}) =>
              bot'.signals = bot.signals]_vars

\* a run has sold a signal that an earlier run bought with a positive share count
C19_Witness ==
    /\ pc = "live"
    /\ bot.state = "loop"
    /\ \E j \in DOMAIN bot.signals :
         /\ j < bot.i
         /\ bot.signals[j].Status = SignalStatusCompleted
         /\ bot.signals[j].NumStocks > 0
         /\ bot.signals[j].SellDate <= bot.now

\* a run has bought a signal
C19_WitnessBought ==
    /\ pc = "live"
    /\ bot.state = "loop"
    /\ bot.orders # << >>
    /\ bot.orders[Len(bot.orders)].side = "buy"
    /\ bot.signals[bot.i - 1].Status = SignalStatusBought

\* a buy order was placed but reports no shares: the signal is still Pending
C19_WitnessZeroShares ==
    /\ pc = "live"
    /\ bot.state = "loop"
    /\ bot.orders # << >>
    /\ bot.orders[Len(bot.orders)].side = "buy"
    /\ bot.orders[Len(bot.orders)].qty = 0
    /\ bot.signals[bot.i - 1].Status = SignalStatusPending

\* a signal whose date is still ahead was passed over
C19_WitnessFuture ==
    /\ pc = "live"
    /\ bot.state = "loop"
    /\ bot.i > 1
    /\ bot.signals[bot.i - 1].Status = SignalStatusBought
    /\ bot.signals[bot.i - 1].SellDate > bot.now


\* C20: updateAllocationWindow replaces the window exactly when none was loaded
\* or today is strictly after its WindowEndDate (and the account value could
\* be read); the new window holds the account value read at that moment, that
\* value divided by MaxSignalsPerWindow as AllocationPerSignal, and today +
\* WindowDurationDays as WindowEndDate. Otherwise the loaded window stays as it
\* was loaded; nothing later in the run touches the window, and every buy of the
\* run is sized with the window's AllocationPerSignal.
C20_AllocationWindow ==
    [][/\ (pc = "live" /\ bot.state = "window" /\ bot'.state # "window") =>
            LET loaded  == bot.allocationWindow
                window  == bot'.allocationWindow
                expired == loaded.isNil \/ bot.now > loaded.WindowEndDate
            IN  /\ window # loaded => expired
                /\ (expired /\ bot'.state = "loop") =>
                       /\ ~window.isNil
                       /\ window.AccountValue = bot'.accountValue
                       /\ window.AccountValue \in LiveAccountValues
                       /\ window.AllocationPerSignal * MaxSignalsPerWindow
                              = window.AccountValue
                       /\ window.WindowStartDate = bot.now
                       /\ window.WindowEndDate = bot.now + WindowDurationDays
                /\ bot'.state = "loop" =>
                       bot'.allocationPerSignal = window.AllocationPerSignal
       /\ (pc = "live" /\ bot.state = "load" /\ bot'.state = "window") =>
              bot'.allocationWindow = bot.db.window
       /\ (pc = "live" /\ bot.state = "loop") =>
              /\ bot'.allocationWindow = bot.allocationWindow
              /\ bot'.allocationPerSignal = bot.allocationPerSignal
              /\ PlacesOrder("buy") =>
                     PlacedOrder.allocation = bot.allocationWindow.AllocationPerSignal
              /\ bot'.result = "ok" => bot'.db.window = bot.allocationWindow]_vars

\* a run found the stored window expired and replaced it
C20_Witness ==
    /\ pc = "live"
    /\ bot.state = "loop"
    /\ ~bot.db.window.isNil
    /\ bot.now > bot.db.window.WindowEndDate
    /\ bot.allocationWindow.WindowStartDate = bot.now
    /\ bot.allocationWindow.AccountValue # bot.db.window.AccountValue

\* a run on the last day of the stored window kept it, and bought with its amount
C20_WitnessKept ==
    /\ pc = "live"
    /\ bot.state = "loop"
    /\ ~bot.db.window.isNil
    /\ bot.now = bot.db.window.WindowEndDate
    /\ bot.allocationWindow = bot.db.window
    /\ bot.orders # << >>
    /\ bot.orders[Len(bot.orders)].side = "buy"
    /\ bot.orders[Len(bot.orders)].allocation = bot.db.window.AllocationPerSignal

\* the first run made the window, none being stored
C20_WitnessFirst ==
    /\ pc = "live"
    /\ bot.state = "loop"
    /\ bot.db.window.isNil
    /\ ~bot.allocationWindow.isNil

\* the step is the return of updateAllocationWindow in a run that loaded no window
NoWindowLoaded ==
    /\ pc = "live"
    /\ bot.state = "window"
    /\ bot.allocationWindow.isNil
    /\ bot'.state # "window"

\* C21: a live run that has no allocation window, none being loaded and none
\* being made, does not fail: it goes on to the loop over the signals and sizes
\* its buys with DefaultAllocationAmount.
C21_DefaultAllocation ==
    [][(NoWindowLoaded /\ bot'.allocationWindow.isNil) =>
           /\ bot'.state = "loop"
           /\ bot'.allocationPerSignal = Cents(DefaultAllocationAmount)]_vars

\* C21, as the code has it: a run that loaded no window either makes one from
\* the account value and sizes its buys from it, or, the account value being
\* unreadable, returns that error before any signal is processed; no buy is
\* ever sized with DefaultAllocationAmount.
C21_WindowOrFailure ==
    [][/\ NoWindowLoaded =>
            \/ /\ bot'.state = "loop"
               /\ ~bot'.allocationWindow.isNil
               /\ bot'.allocationPerSignal = bot'.allocationWindow.AllocationPerSignal
            \/ /\ bot'.state = "idle"
               /\ bot'.result = "failed to get account value"
               /\ bot'.allocationWindow.isNil
               /\ bot'.orders = << >>
               /\ bot'.processedCount = 0 /\ bot'.errorCount = 0
               /\ bot'.db = bot.db
       /\ (pc = "live" /\ bot.state = "loop" /\ PlacesOrder("buy")) =>
              /\ ~bot.allocationWindow.isNil
              /\ PlacedOrder.allocation # Cents(DefaultAllocationAmount)]_vars

\* a run with no stored window has failed on the account value
C21_Witness ==
    /\ pc = "live"
    /\ bot.state = "idle"
    /\ bot.runs > 0
    /\ bot.db.window.isNil
    /\ bot.result = "failed to get account value"
    /\ bot.signals # << >>

\* C22: an error on one signal does not abort the tick or the run. In
\* Engine.Run a visit that fails leaves the signal's status as it was and the
\* loop goes on: the tick ends only when every signal has been visited, and it
\* ends with the high-price update, no error being returned. In TradingBot.Run
\* an iteration that fails leaves the signal's status as it was, adds one to
\* errorCount and the loop goes on; the loop is left only after the last signal,
\* with processedCount + errorCount equal to the number of loaded signals.
C22_ErrorsDoNotAbort ==
    [][/\ \A i \in DOMAIN signals :
              (Visited(i) /\ lastOp'.err # "") =>
                  /\ signals'[i].Status = signals[i].Status
                  /\ pc' = "run"
                  /\ order' = order \ {i}
       /\ (pc = "run" /\ pc' # "run") =>
              /\ order = {}
              /\ pc' = "day"
              /\ lastOp' = NoOp
              /\ signals' = UpdateSignalsHighPrice(signals, tickerData)
       /\ Processed =>
              /\ bot'.state = "loop"
              /\ bot'.processedCount + bot'.errorCount = bot.i
              /\ bot'.errorCount \in {bot.errorCount, bot.errorCount + 1}
              /\ bot'.errorCount # bot.errorCount =>
                     /\ bot'.signals[bot.i].Status = bot.signals[bot.i].Status
                     /\ bot'.processedCount = bot.processedCount
       /\ (pc = "live" /\ bot.state = "loop" /\ bot'.state # "loop") =>
              /\ bot.i = Len(bot.signals) + 1
              /\ bot'.state = "idle"
              /\ bot'.processedCount + bot'.errorCount = Len(bot'.signals)]_vars

\* a live run has completed with one signal failed and another processed
C22_Witness ==
    /\ pc = "live"
    /\ bot.state = "idle"
    /\ bot.result = "ok"
    /\ bot.errorCount = 1
    /\ bot.processedCount >= 1
    /\ bot.orders # << >>

\* a buy of Engine.Run has failed in the ledger and other signals are still to be visited
C22_WitnessEngine ==
    /\ pc = "run"
    /\ lastOp.op = "buy"
    /\ lastOp.err \notin {"", "no quote"}
    /\ order # {}
    /\ signals[lastOp.id].Status = StatusPending

\* Engine.Run has visited a signal in a tick after another signal's buy had failed
C22_WitnessEngineLater ==
    /\ pc = "run"
    /\ lastOp # NoOp
    /\ lastOp.err = ""
    /\ \E j \in DOMAIN signals :
          /\ j \notin order
          /\ j # lastOp.id
          /\ signals[j].Status = StatusPending
          /\ currentDate >= signals[j].BuyDateTime
          /\ tickerData[signals[j].Ticker] # NoQuote

\* the step is a save of TradingBot.Run that succeeds
Saved == pc = "live" /\ bot.state = "loop" /\ bot'.state = "idle" /\ bot'.result = "ok"

\* the signals the run has brought to Completed
CompletedInRun == {j \in DOMAIN bot.signals : bot.signals[j].Status = SignalStatusCompleted}

\* the items the next loadData keeps: those of Pending and Bought signals
ActiveItemsOf(items) ==
    {x \in items : x.Data.Status \in {SignalStatusPending, SignalStatusBought}}

\* C23: after a run in which a signal reached Completed and whose save
\* succeeded, the table holds no item of that signal.
C23_CompletedIsDeleted ==
    [][Saved =>
           \A j \in CompletedInRun :
               \A x \in bot'.db.items : x.SK # bot.signals[j].UUID]_vars

\* C23, as the code has it: the save writes the Pending and Bought signals and
\* the window and removes nothing, so the item a Completed signal was loaded
\* from is still in the table, with status Bought, for the next run to load.
C23_CompletedStaysStored ==
    [][Saved =>
           /\ bot.db.items \subseteq bot'.db.items
                  \cup {x \in bot.db.items :
                           \E j \in DOMAIN bot.signals :
                               /\ bot.signals[j].Status # SignalStatusCompleted
                               /\ SignalItem(bot.signals[j]).PK = x.PK
                               /\ SignalItem(bot.signals[j]).SK = x.SK}
           /\ \A j \in CompletedInRun :
                  \E x \in bot'.db.items :
                      /\ x.SK = bot.signals[j].UUID
                      /\ x.PK = "SIGNAL#" \o SignalStatusBought
                      /\ x.Data.Status = SignalStatusBought
                      /\ x \in ActiveItemsOf(bot'.db.items)]_vars

\* a run that sold a signal has saved, and the table still holds the signal as Bought
C23_Witness ==
    /\ pc = "live"
    /\ bot.state = "idle"
    /\ bot.result = "ok"
    /\ \E j \in DOMAIN bot.signals :
          /\ bot.signals[j].Status = SignalStatusCompleted
          /\ \E x \in bot.db.items :
                /\ x.SK = bot.signals[j].UUID
                /\ x.Data.Status = SignalStatusBought

\* the step is the end of Engine.Run: the end-of-tick update of the high prices
TickEnds == pc = "run" /\ pc' = "day"

\* C24: the end-of-tick update changes HighPrice only for Active signals, to
\* the larger of the prior HighPrice and the tick price; the HighPrice of a
\* Pending or Sold signal is not changed by any step of a tick.
C24_HighPriceActiveOnly ==
    [][\A i \in DOMAIN signals :
           /\ (TickEnds /\ signals[i].Status = StatusActive /\ QuoteOf(i) # NoQuote) =>
                  signals'[i].HighPrice = Max({signals[i].HighPrice, QuoteOf(i).Price})
           /\ (pc \in {"day", "run"} /\ signals[i].Status # StatusActive
                   /\ signals'[i].Status # StatusActive) =>
                  signals'[i].HighPrice = signals[i].HighPrice]_vars

\* C24, as the code has it: the end-of-tick update raises the HighPrice of
\* every signal whose ticker has a quote, whatever its status, to the larger of
\* the prior HighPrice and the tick price; without a quote, and in every other
\* step, HighPrice stays.
C24_HighPriceEverySignal ==
    [][\A i \in DOMAIN signals :
           /\ (TickEnds /\ QuoteOf(i) # NoQuote) =>
                  signals'[i].HighPrice = Max({signals[i].HighPrice, QuoteOf(i).Price})
           /\ (TickEnds /\ QuoteOf(i) = NoQuote) =>
                  signals'[i].HighPrice = signals[i].HighPrice
           /\ (pc \in {"day", "run"} /\ ~TickEnds) =>
                  signals'[i].HighPrice = signals[i].HighPrice]_vars

\* a signal that is still Pending has a HighPrice from a tick before its buy
C24_Witness ==
    \E i \in DOMAIN signals :
        /\ pc = "day"
        /\ signals[i].Status = StatusPending
        /\ signals[i].HighPrice > 0

\* a signal became Active with a HighPrice above every price seen since its buy
C24_WitnessActive ==
    \E i \in DOMAIN signals :
        /\ pc = "run"
        /\ lastOp.id = i /\ lastOp.op = "buy" /\ lastOp.err = ""
        /\ signals[i].Status = StatusActive
        /\ signals[i].HighPrice > QuoteOf(i).Price

\* a Sold signal's HighPrice was raised by the tick that sold it
C24_WitnessSold ==
    \E i \in DOMAIN signals :
        /\ pc = "day"
        /\ signals[i].Status = StatusSold
        /\ signals[i].HighPrice = signals[i].InitialTrade.SellPrice
        /\ signals[i].HighPrice > signals[i].InitialTrade.BuyPrice

\* the step is a visit of signal i in which Engine.Run places a dip buy
DipPlaced(i) == Visited(i) /\ lastOp'.op = "dip" /\ lastOp'.err = ""

\* signal j is Pending and its initial buy is due in this tick, with a quote
InitialBuyDue(j) ==
    /\ BuyDue(signals[j], currentDate)
    /\ QuoteOf(j) # NoQuote

\* C25: within a tick no dip buy is placed while a Pending signal whose initial
\* buy is due in the tick has not been evaluated yet.
C25_BuysBeforeDips ==
    [][\A i \in DOMAIN signals :
           DipPlaced(i) => \A j \in order \ {i} : ~InitialBuyDue(j)]_vars

\* C25, as the code has it: Engine.Run has one loop, which evaluates each
\* signal once per tick, in the order of the map: the dip buy of a signal comes
\* in a later tick than its own initial buy, and nothing orders it against the
\* initial buys of the other signals.
C25_OwnBuyBeforeDip ==
    [][\A i \in DOMAIN signals :
           /\ DipPlaced(i) =>
                  /\ signals[i].Status = StatusActive
                  /\ signals[i].InitialTrade.BuyDateTime < currentDate
                  /\ order' = order \ {i}
           /\ (pc = "run" /\ pc' = "run") => Cardinality(order') = Cardinality(order) - 1]_vars

\* a dip buy has been placed while the initial buy of another signal, due in the
\* same tick, is still to come
C25_Witness ==
    /\ pc = "run"
    /\ lastOp.op = "dip"
    /\ lastOp.err = ""
    /\ \E j \in order : InitialBuyDue(j)

\* in another run the initial buy came first and the dip buy after it
C25_WitnessBuyFirst ==
    /\ pc = "run"
    /\ lastOp.op = "buy"
    /\ lastOp.err = ""
    /\ \E j \in order :
          /\ signals[j].Status = StatusActive
          /\ currentDate < signals[j].SellDateTime
          /\ CheckDipBuyConditions(signals[j], tickerData, currentDate)

\* the state Engine.Run leaves when its range loop visits the signals in the
\* order ids, before the high-price update
RECURSIVE VisitAll(_, _, _, _)
VisitAll(ids, sigs, bal, pos) ==
    IF ids = << >>
    THEN [signals |-> sigs, balance |-> bal, positions |-> pos]
    ELSE LET r == Visit(sigs, bal, pos, tickerData, currentDate, Head(ids))
         IN  VisitAll(Tail(ids), r.signals, r.balance, r.positions)

\* every order in which the range over the map can yield the signals
VisitOrders ==
    {f \in [1..Cardinality(DOMAIN signals) -> DOMAIN signals] :
        \A a, b \in 1..Cardinality(DOMAIN signals) : f[a] = f[b] => a = b}

Outcome(ids) == VisitAll(ids, signals, balance, positions)

TickStarts == pc = "run" /\ order = DOMAIN signals

\* C26: at the start of a tick, every order of visiting the signals leaves the
\* same signals (statuses and trades), cash and positions.
C26_OrderIndependent ==
    TickStarts => \A p, q \in VisitOrders : Outcome(p) = Outcome(q)

\* a tick whose outcome depends on the order: one signal sells, another buys
C26_WitnessSellAndBuy ==
    /\ TickStarts
    /\ \E p, q \in VisitOrders : Outcome(p) # Outcome(q)
    /\ \E i, j \in DOMAIN signals :
          /\ signals[i].Status = StatusActive /\ SellDue(signals[i], currentDate)
          /\ InitialBuyDue(j)

\* a tick whose outcome depends on the order: the cash is enough for only one
\* of the two initial buys that are due
C26_WitnessCashShort ==
    /\ TickStarts
    /\ \E i, j \in DOMAIN signals :
          /\ i # j
          /\ InitialBuyDue(i) /\ InitialBuyDue(j)
          /\ \E p, q \in VisitOrders :
                /\ Outcome(p).signals[i].Status = StatusActive
                /\ Outcome(p).signals[j].Status = StatusPending
                /\ Outcome(q).signals[i].Status = StatusPending
                /\ Outcome(q).signals[j].Status = StatusActive

\* the two orders are also taken by the run itself: the loop has ended with
\* signal 0 bought and signal 1 refused
C26_WitnessReached ==
    /\ pc = "run"
    /\ order = {}
    /\ Cardinality(DOMAIN signals) = 2
    /\ signals[0].Status = StatusActive /\ signals[0].InitialTrade.BuyDateTime = currentDate
    /\ signals[1].Status = StatusPending /\ InitialBuyDue(1)

\* and, from the same start of the tick, with signal 1 bought and signal 0 refused
C26_WitnessReachedOther ==
    /\ pc = "run"
    /\ order = {}
    /\ Cardinality(DOMAIN signals) = 2
    /\ signals[1].Status = StatusActive /\ signals[1].InitialTrade.BuyDateTime = currentDate
    /\ signals[0].Status = StatusPending /\ InitialBuyDue(0)

\* C27: the dip evaluation of a tick reads the HighPrice that earlier ticks
\* left. No visit of the range loop changes a HighPrice, the price of the tick
\* is folded in only by the step that ends the tick, after every signal has
\* been visited, and a dip buy is placed only at a price under the HighPrice it
\* was measured against, by at least MinDropPercentage.
C27_DipReadsEarlierHigh ==
    [][\A i \in DOMAIN signals :
           /\ (pc = "run" /\ pc' = "run") => signals'[i].HighPrice = signals[i].HighPrice
           /\ signals'[i].HighPrice # signals[i].HighPrice =>
                  /\ TickEnds
                  /\ order = {}
                  /\ signals'[i].HighPrice = QuoteOf(i).Price
           /\ (Visited(i) /\ lastOp'.op = "dip") =>
                  /\ QuoteOf(i).Price < signals[i].HighPrice
                  /\ DropPercentage(signals[i].HighPrice, QuoteOf(i).Price)
                         >= NewFromInt(MinDropPercentage)
                  /\ signals'[i].HighPrice = signals[i].HighPrice]_vars

\* a dip buy was placed on a tick whose price, had it been folded in first,
\* would have been measured against a high left by an earlier tick
C27_Witness ==
    /\ pc = "run"
    /\ lastOp.op = "dip" /\ lastOp.err = ""
    /\ order = {}
    /\ signals[lastOp.id].HighPrice > QuoteOf(lastOp.id).Price
    /\ signals[lastOp.id].HighPrice >= signals[lastOp.id].InitialTrade.BuyPrice

\* a signal was bought at a price above its HighPrice, which the visit left as it was
C27_WitnessBuy ==
    /\ pc = "run"
    /\ lastOp.op = "buy" /\ lastOp.err = ""
    /\ signals[lastOp.id].HighPrice < QuoteOf(lastOp.id).Price

\* the prices and high prices the dip-buy conditions are tried with when the
\* SMA20 is missing, zero among them
DipPrices == {NewFromInt(0), NewFromInt(50), NewFromInt(80), NewFromInt(100)}
DipHighs  == {NewFromInt(0), NewFromInt(96), NewFromInt(100), NewFromInt(120)}

\* the quote of a tick without 20 bars of history
MissingSMA(price) == [Price |-> price, SMA20 |-> NewFromInt(0)]

\* C28: when the SMA20 of the quote is zero, CheckDipBuyConditions is false
\* for every price and HighPrice and for every history a signal can have, and
\* no visit on such a tick adds a DipTrade.
C28_NoDipWithoutSMA ==
    [][\A i \in DOMAIN signals :
           /\ (pc = "run" /\ signals[i].Status = StatusActive) =>
                  \A price \in DipPrices, high \in DipHighs :
                      ~CheckDipBuyConditions(
                           [signals[i] EXCEPT !.HighPrice = high],
                           [tickerData EXCEPT ![signals[i].Ticker] = MissingSMA(price)],
                           currentDate)
           /\ (pc = "run" /\ QuoteOf(i) # NoQuote /\ QuoteOf(i).SMA20 = NewFromInt(0)) =>
                  /\ Len(signals'[i].DipTrades) = Len(signals[i].DipTrades)
                  /\ Visited(i) => lastOp'.op # "dip"]_vars

\* a signal that every other dip-buy condition would let buy at 80 is visited on
\* a tick whose quote has no SMA20
C28_Witness ==
    \E i \in DOMAIN signals :
        /\ pc = "run"
        /\ lastOp = [id |-> i, op |-> "none", err |-> ""]
        /\ signals[i].Status = StatusActive
        /\ currentDate < signals[i].SellDateTime
        /\ QuoteOf(i) # NoQuote
        /\ QuoteOf(i).SMA20 = NewFromInt(0)
        /\ CheckDipBuyConditions(signals[i],
                                 [tickerData EXCEPT ![signals[i].Ticker] = Quote(80, 100)],
                                 currentDate)

\* the gain in percent of a price over the entry price, as both replays compute it
GainOf(price) == ((price - replay.initialPrice) * 100) \div replay.initialPrice

\* the highest gain and the lowest gain of the first n days of the series, with 0
GainsUpTo(n) == {0} \cup {GainOf(replay.dailyPrices[k]) : k \in 1..n}

\* the day on which the replay leaves the loop: the first stop day, or the last day
ExitDay == IF StopDays = {} THEN Len(replay.dailyPrices) ELSE Min(StopDays)

\* C29 as stated: the maxGain and maxDrawdown returned by both trailing-stop
\* replays are the highest and the lowest gain over the whole price series
\* (with 0), the days after the exit day included.
C29_WholeSeries ==
    (pc = "compare" /\ replay.state = "returned" /\ Len(replay.dailyPrices) > 0) =>
        /\ replay.result.maxGain = Max(GainsUpTo(Len(replay.dailyPrices)))
        /\ replay.result.maxDrawdown = Min(GainsUpTo(Len(replay.dailyPrices)))
        /\ replay.simple.maxGain = Max(GainsUpTo(Len(replay.dailyPrices)))
        /\ replay.simple.maxDrawdown = Min(GainsUpTo(Len(replay.dailyPrices)))

\* C29, what the code does: the maxGain and maxDrawdown returned by both replays
\* are the highest and the lowest gain (with 0) over the days up to and including
\* the exit day; the days after it are not read.
C29_UpToExitDay ==
    (pc = "compare" /\ replay.state = "returned" /\ Len(replay.dailyPrices) > 0) =>
        /\ replay.result.days = ExitDay
        /\ replay.result.maxGain = Max(GainsUpTo(ExitDay))
        /\ replay.result.maxDrawdown = Min(GainsUpTo(ExitDay))
        /\ replay.simple.maxGain = Max(GainsUpTo(ExitDay))
        /\ replay.simple.maxDrawdown = Min(GainsUpTo(ExitDay))

\* both replays have left a series at the stop before its last day, and a later day
\* has a higher gain than every day up to the exit
C29_Witness ==
    /\ pc = "compare" /\ replay.state = "returned"
    /\ replay.result.stopped /\ replay.simple.stopped
    /\ ExitDay < Len(replay.dailyPrices)
    /\ Max(GainsUpTo(Len(replay.dailyPrices))) > replay.result.maxGain
    /\ Max(GainsUpTo(Len(replay.dailyPrices))) > replay.simple.maxGain

\* both replays have left a series at the stop before its last day, and a later day
\* has a lower gain than every day up to the exit
C29_WitnessDrawdown ==
    /\ pc = "compare" /\ replay.state = "returned"
    /\ replay.result.stopped /\ replay.simple.stopped
    /\ ExitDay < Len(replay.dailyPrices)
    /\ Min(GainsUpTo(Len(replay.dailyPrices))) < replay.result.maxDrawdown

\* the days whose price is at or over the take-profit target
TargetDays ==
    {k \in 1..Len(replay.dailyPrices) :
        replay.dailyPrices[k] * 100 >= replay.initialPrice * (100 + replay.takeProfitPct)}

\* C30: in the replay with a take-profit target, a price at or over
\* entry x (1 + takeProfitPct) never ends the replay: the replay ends on the first
\* stop day at that day's price, with the reason "Trailing stop hit (after take
\* profit)" exactly when some day up to and including that day reached the target
\* and "Trailing stop hit (before take profit)" when none did; when there is no
\* stop day it reads every day and the exit price is the last price of the series.
C30_TakeProfitComposes ==
    (pc = "compare" /\ replay.state = "returned" /\ Len(replay.dailyPrices) > 0) =>
        /\ StopDays # {} =>
              /\ replay.result.days = Min(StopDays)
              /\ replay.result.finalPrice = replay.dailyPrices[Min(StopDays)]
              /\ replay.result.exitStrategy = "Trailing stop hit (after take profit)"
                   <=> (\E k \in TargetDays : k <= Min(StopDays))
              /\ (~ \E k \in TargetDays : k <= Min(StopDays)) =>
                   replay.result.exitStrategy = "Trailing stop hit (before take profit)"
        /\ StopDays = {} =>
              /\ replay.result.days = Len(replay.dailyPrices)
              /\ replay.result.finalPrice = replay.dailyPrices[Len(replay.dailyPrices)]
              /\ replay.result.exitStrategy
                   \notin {"Trailing stop hit (after take profit)",
                           "Trailing stop hit (before take profit)"}

\* a replay has returned that went on after the day the target was reached and
\* left at the stop on a later day
C30_Witness ==
    /\ pc = "compare" /\ replay.state = "returned"
    /\ replay.result.exitStrategy = "Trailing stop hit (after take profit)"
    /\ TargetDays # {}
    /\ Min(TargetDays) < replay.result.days
    /\ replay.result.finalPrice = replay.dailyPrices[replay.result.days]

\* a replay has returned that left at the stop before any day reached the target,
\* with a later day at or over the target
C30_WitnessBefore ==
    /\ pc = "compare" /\ replay.state = "returned"
    /\ replay.result.exitStrategy = "Trailing stop hit (before take profit)"
    /\ TargetDays # {}

\* a replay has returned that reached the target and held to the last day
C30_WitnessHeld ==
    /\ pc = "compare" /\ replay.state = "returned"
    /\ ~ replay.result.stopped
    /\ replay.result.takeProfitHit
    /\ Len(replay.dailyPrices) > Min(TargetDays)
    /\ replay.result.finalPrice = replay.dailyPrices[Len(replay.dailyPrices)]

\* the days of the series of the staggered entry that satisfy each test of the
\* waterfall, in the words of the description
DaysAtOrUnder(pct) ==
    {k \in 1..Len(replay.dailyPrices) :
        replay.dailyPrices[k] * 100 <= replay.initialPrice * pct}
DaysOfDailyDrop ==
    {k \in 2..Len(replay.dailyPrices) :
        (replay.dailyPrices[k - 1] - replay.dailyPrices[k]) * 100
            > 3 * replay.dailyPrices[k - 1]}
CrossesAverage ==
    /\ Len(replay.dailyPrices) >= 3
    /\ 2 * replay.dailyPrices[3] < replay.dailyPrices[1] + replay.dailyPrices[2]
    /\ replay.dailyPrices[3] < replay.initialPrice
SecondDayDown ==
    /\ Len(replay.dailyPrices) >= 2
    /\ replay.dailyPrices[2] < replay.dailyPrices[1]
    /\ replay.dailyPrices[2] < replay.initialPrice
PeriodLow == Min({replay.dailyPrices[k] : k \in 1..Len(replay.dailyPrices)})

\* the steps of the waterfall in order, each with its test, its price and its
\* name; lowIsDip is the test of the last step
WaterfallSteps(lowIsDip) ==
    << [hit |-> DaysAtOrUnder(95) # {},
        price |-> IF DaysAtOrUnder(95) # {}
                  THEN replay.dailyPrices[Min(DaysAtOrUnder(95))] ELSE 0,
        strategy |-> "RSI oversold (5% drop)"],
       [hit |-> CrossesAverage,
        price |-> IF CrossesAverage THEN replay.dailyPrices[3] ELSE 0,
        strategy |-> "MA crossover"],
       [hit |-> DaysOfDailyDrop # {},
        price |-> IF DaysOfDailyDrop # {}
                  THEN replay.dailyPrices[Min(DaysOfDailyDrop)] ELSE 0,
        strategy |-> "volatility spike (3% drop)"],
       [hit |-> DaysAtOrUnder(98) # {},
        price |-> IF DaysAtOrUnder(98) # {}
                  THEN replay.dailyPrices[Min(DaysAtOrUnder(98))] ELSE 0,
        strategy |-> "support break (2% drop)"],
       [hit |-> SecondDayDown,
        price |-> IF SecondDayDown THEN replay.dailyPrices[2] ELSE 0,
        strategy |-> "momentum reversal"],
       [hit |-> lowIsDip,
        price |-> PeriodLow,
        strategy |-> "lowest price (1%+ drop)"],
       [hit |-> TRUE,
        price |-> replay.initialPrice,
        strategy |-> "no dip detected"] >>

\* the first step of the waterfall that matches
FirstMatch(lowIsDip) ==
    LET steps == WaterfallSteps(lowIsDip)
    IN  steps[Min({k \in 1..Len(steps) : steps[k].hit})]

\* C31 as stated: for a series that is not empty detectDip returns the first match
\* of the waterfall (5% under entry, third day under the two-day average and under
\* entry, a day more than 3% under the day before, 2% under entry, second day under
\* the first and under entry, the lowest price of the period if it is at least 1%
\* under entry), and the entry price with "no dip detected" otherwise.
C31_Waterfall ==
    (pc = "dip" /\ replay.state = "returned" /\ Len(replay.dailyPrices) > 0) =>
        LET step == FirstMatch(PeriodLow * 100 <= replay.initialPrice * 99)
        IN  /\ replay.dipBuyPrice = step.price
            /\ replay.dipStrategy = step.strategy

\* C31, what the code does: the same waterfall in the same order, with the lowest
\* price of the period taken only when it is more than 1% under entry.
C31_WaterfallOverOnePercent ==
    (pc = "dip" /\ replay.state = "returned" /\ Len(replay.dailyPrices) > 0) =>
        LET step == FirstMatch(PeriodLow * 100 < replay.initialPrice * 99)
        IN  /\ replay.dipBuyPrice = step.price
            /\ replay.dipStrategy = step.strategy

\* detectDip has returned for a series whose lowest price is exactly 1% under
\* entry, and no earlier step of the waterfall matched
C31_Witness ==
    /\ pc = "dip" /\ replay.state = "returned"
    /\ Len(replay.dailyPrices) > 0
    /\ PeriodLow * 100 = replay.initialPrice * 99
    /\ replay.dipStrategy = "no dip detected"

\* detectDip has returned at each step of the waterfall, each time with a later
\* step's test holding too
C31_WitnessOversold ==
    /\ pc = "dip" /\ replay.state = "returned"
    /\ replay.dipStrategy = "RSI oversold (5% drop)"
    /\ CrossesAverage /\ Min(DaysAtOrUnder(95)) = 3
C31_WitnessCrossover ==
    /\ pc = "dip" /\ replay.state = "returned"
    /\ replay.dipStrategy = "MA crossover"
    /\ DaysOfDailyDrop # {} /\ Min(DaysOfDailyDrop) < 3
C31_WitnessSpike ==
    /\ pc = "dip" /\ replay.state = "returned"
    /\ replay.dipStrategy = "volatility spike (3% drop)"
    /\ DaysAtOrUnder(98) # {} /\ Min(DaysAtOrUnder(98)) < Min(DaysOfDailyDrop)
C31_WitnessSupport ==
    /\ pc = "dip" /\ replay.state = "returned"
    /\ replay.dipStrategy = "support break (2% drop)"
    /\ SecondDayDown /\ Min(DaysAtOrUnder(98)) = 2
C31_WitnessMomentum ==
    /\ pc = "dip" /\ replay.state = "returned"
    /\ replay.dipStrategy = "momentum reversal"
    /\ PeriodLow * 100 < replay.initialPrice * 99
C31_WitnessLowest ==
    /\ pc = "dip" /\ replay.state = "returned"
    /\ replay.dipStrategy = "lowest price (1%+ drop)"
    /\ replay.dipBuyPrice < replay.initialPrice

\* the highest of the entry price and the prices read so far
HighestSoFar ==
    Max({replay.initialPrice} \cup {replay.dailyPrices[k] : k \in 1..Len(replay.dailyPrices)})

\* C32: after every iteration of either replay the stop level is
\* (1 - stopPct) x the highest of the entry price and the prices read so far.
C32_StopFollowsHighest ==
    (pc = "days") =>
        /\ replay.simple.trailingStopLevel = HighestSoFar * (100 - replay.trailingStopPct)
        /\ replay.result.trailingStopLevel = HighestSoFar * (100 - replay.trailingStopPct)
        /\ replay.simple.highestPrice = HighestSoFar
        /\ replay.result.highestPrice = HighestSoFar

\* C32: from one day to the next the stop level of either replay never decreases.
C32_StopNeverFalls ==
    [][pc = "days" =>
          /\ replay'.simple.trailingStopLevel >= replay.simple.trailingStopLevel
          /\ replay'.result.trailingStopLevel >= replay.result.trailingStopLevel]_vars

\* both replays have raised the stop on a new high and then read a lower price
\* that did not reach the stop
C32_Witness ==
    /\ pc = "days"
    /\ Len(replay.dailyPrices) >= 2
    /\ ~ replay.simple.stopped /\ ~ replay.result.stopped
    /\ replay.simple.trailingStopLevel > replay.initialPrice * (100 - replay.trailingStopPct)
    /\ replay.dailyPrices[Len(replay.dailyPrices)] < HighestSoFar
    /\ replay.dailyPrices[Len(replay.dailyPrices)] < replay.initialPrice

\* both replays have left the loop at a stop level that had been raised
C32_WitnessStopped ==
    /\ pc = "days"
    /\ replay.simple.stopped /\ replay.result.stopped
    /\ replay.simple.trailingStopLevel > replay.initialPrice * (100 - replay.trailingStopPct)

\* C32: during a trailing-stop replay the stop level never decreases from one day
\* to the next and always equals (1 - stopPct) x the highest of the entry price and
\* the prices seen so far.
C32_StopLevel == []C32_StopFollowsHighest /\ C32_StopNeverFalls

\* the days of the lookups made so far that had bars
DaysWithBars ==
    {replay.lookups[k].day : k \in {j \in 1..Len(replay.lookups) :
                                        replay.lookups[j].response = "bars"}}

\* C33: GetClosingPrice(ticker, d) looks up d, d+1, ... in this order and never a
\* day before d; it returns the close of the earliest day from d to d+9 that has
\* bars, a failed lookup counting as a day without bars, and it returns an error
\* after exactly 10 lookups when none of them had bars.
C33_BoundedForwardRetry ==
    (pc = "closing") =>
        /\ \A k \in 1..Len(replay.lookups) : replay.lookups[k].day = replay.date + k - 1
        /\ Len(replay.lookups) <= 10
        /\ replay.state = "returned" =>
              /\ DaysWithBars # {}
              /\ Min(DaysWithBars) <= replay.date + 9
              /\ replay.closingPrice = CloseOf(Min(DaysWithBars))
              /\ replay.err = ""
        /\ replay.state = "failed" =>
              /\ Len(replay.lookups) = 10
              /\ DaysWithBars = {}
              /\ replay.err # ""
        /\ replay.state = "loop" => (DaysWithBars = {} /\ Len(replay.lookups) < 10)

\* the lookup has returned the close of day d+9 after nine days without bars, one
\* of them a failed lookup
C33_Witness ==
    /\ pc = "closing" /\ replay.state = "returned"
    /\ Len(replay.lookups) = 10
    /\ replay.closingPrice = CloseOf(replay.date + 9)
    /\ \E k \in 1..9 : replay.lookups[k].response = "error"
    /\ \E k \in 1..9 : replay.lookups[k].response = "empty"

\* the lookup has returned an error after ten lookups without bars
C33_WitnessFailed ==
    /\ pc = "closing" /\ replay.state = "failed"
    /\ replay.lookups[10].day = replay.date + 9

\* the four values a replay returns
FourValues(locals) ==
    <<locals.finalPrice, locals.exitStrategy, locals.maxGain, locals.maxDrawdown>>

\* the second calls returned what the first calls returned
SameResults ==
    (pc = "twice" /\ replay.state = "twice") =>
        /\ FourValues(replay.second.trailing) = FourValues(replay.first.trailing)
        /\ FourValues(replay.second.simple) = FourValues(replay.first.simple)
        /\ replay.second.dip = replay.first.dip

\* a step in which the functions return leaves the ledger and the signals alone
CallsLeaveLedger ==
    (pc = "twice" /\ replay'.state # replay.state) =>
        UNCHANGED <<signals, balance, positions, tickerData, order, deposits, external>>

StoredAs(items, status, uuid) ==
    {x \in items : x.PK = "SIGNAL#" \o status /\ x.SK = uuid}

\* C35 as stated: across the live runs at most one buy order is placed per signal;
\* a run never places a buy order for a signal that an earlier run has saved as
\* Bought, and never loads such a signal as Pending.
C35_OneBuyPerSignal ==
    [][/\ (Processed /\ PlacesOrder("buy")) =>
              StoredAs(bot.db.items, SignalStatusBought, bot.signals[bot.i].UUID) = {}
       /\ (pc = "live" /\ bot.state = "load" /\ bot'.state = "window") =>
              \A k \in DOMAIN bot'.signals :
                  bot'.signals[k].Status = SignalStatusPending =>
                      StoredAs(bot.db.items, SignalStatusBought, bot'.signals[k].UUID) = {}
      ]_vars

\* C35, what the code does: a save writes the item SIGNAL#<status> of every signal
\* it is given and removes none, so the SIGNAL#PENDING item of a signal saved as
\* Bought stays in the table with the status Pending, and every later load returns
\* it, as a Pending signal, together with the Bought one.
C35_PendingItemStays ==
    [][/\ Saved =>
              \A x \in bot.db.items :
                  x.PK = "SIGNAL#" \o SignalStatusPending => x \in bot'.db.items
       /\ (pc = "live" /\ bot.state = "load" /\ bot'.state = "window") =>
              \A x \in bot.db.items :
                  x.PK = "SIGNAL#" \o SignalStatusPending =>
                      \E k \in DOMAIN bot'.signals :
                          /\ bot'.signals[k].UUID = x.SK
                          /\ bot'.signals[k].Status = SignalStatusPending
      ]_vars

\* a second run has placed a buy order for a signal that the first run bought and
\* saved as Bought
C35_Witness ==
    /\ pc = "live"
    /\ bot.runs = 2
    /\ bot.state = "loop"
    /\ bot.i > 1
    /\ bot.signals[bot.i - 1].Status = SignalStatusBought
    /\ StoredAs(bot.db.items, SignalStatusPending, bot.signals[bot.i - 1].UUID) # {}
    /\ StoredAs(bot.db.items, SignalStatusBought, bot.signals[bot.i - 1].UUID) # {}
    /\ Len(bot.orders) > 0
    /\ bot.orders[Len(bot.orders)].side = "buy"
    /\ bot.orders[Len(bot.orders)].ticker = bot.signals[bot.i - 1].Ticker
    /\ \A k \in 1..(bot.i - 2) : bot.signals[k].Ticker # bot.signals[bot.i - 1].Ticker

\* the Active signals of a ticker, and the shares their trades hold
ActiveOn(t) == {i \in DOMAIN signals : signals[i].Status = StatusActive /\ signals[i].Ticker = t}
RECURSIVE HeldBy(_)
HeldBy(ids) ==
    IF ids = {} THEN 0
    ELSE LET i == CHOOSE j \in ids : TRUE
         IN  TotalQuantity(signals[i]) + HeldBy(ids \ {i})

\* the errors of the position check of ExecuteSell
PositionCheckErrors == {"position not found in account", "insufficient shares in account"}

\* C36: in a backtest run, at every tick boundary and after every visit of a
\* signal, the ledger holds for each ticker the sum of the quantities of the
\* InitialTrade and the DipTrades of the Active signals of that ticker, and no
\* position when the ticker has no Active signal; no visit fails the position
\* check of the exit.
C36_LedgerMatchesSignals ==
    (pc \in {"day", "run", "done"}) =>
        /\ \A t \in Tickers :
              IF ActiveOn(t) = {} THEN positions[t] = NoPosition
              ELSE /\ positions[t] # NoPosition
                   /\ positions[t].Shares = HeldBy(ActiveOn(t))
        /\ lastOp.err \notin PositionCheckErrors

\* at a tick boundary two Active signals hold shares of one ticker
C36_Witness ==
    /\ pc = "day"
    /\ \E t \in Tickers :
          /\ Cardinality(ActiveOn(t)) = 2
          /\ positions[t] # NoPosition
          /\ positions[t].Shares = HeldBy(ActiveOn(t))

\* at a tick boundary an Active signal holds its initial lot and a dip lot
C36_WitnessDip ==
    /\ pc = "day"
    /\ \E t \in Tickers :
          /\ \E i \in ActiveOn(t) : Len(signals[i].DipTrades) > 0
          /\ positions[t] # NoPosition
          /\ positions[t].Shares = HeldBy(ActiveOn(t))

\* at a tick boundary one of two signals of a ticker has been sold and the other
\* is still Active
C36_WitnessSold ==
    /\ pc = "day"
    /\ \E t \in Tickers :
          /\ Cardinality(ActiveOn(t)) = 1
          /\ \E i \in DOMAIN signals : signals[i].Ticker = t /\ signals[i].Status = StatusSold
          /\ positions[t] # NoPosition

\* C37: the cash of the ledger is never negative, in a backtest run (Monday
\* deposits, initial buys and dip buys of several signals on one tick, sells) and
\* in a session of direct deposits, buys and sells with positive amounts,
\* quantities and prices.
C37_CashNeverNegative ==
    (pc \in {"day", "run", "done", "ledger"}) => balance >= 0

\* in one tick a signal has been bought and the buy of another signal has then
\* been rejected for want of cash
C37_Witness ==
    /\ pc = "run"
    /\ lastOp.op = "buy" /\ lastOp.err = "insufficient funds"
    /\ \E j \in DOMAIN signals :
          /\ j # lastOp.id
          /\ signals[j].Status = StatusActive
          /\ signals[j].InitialTrade.BuyDateTime = currentDate
    /\ balance >= 0

\* a dip buy has just been paid for on a tick on which another signal was bought
C37_WitnessDip ==
    /\ pc = "run"
    /\ lastOp.op = "dip" /\ lastOp.err = ""
    /\ \E j \in DOMAIN signals :
          /\ j # lastOp.id
          /\ signals[j].Status = StatusActive
          /\ signals[j].InitialTrade.BuyDateTime = currentDate

\* a direct buy has just taken all the cash, and a direct buy has just been
\* rejected
C37_WitnessLedger ==
    /\ pc = "ledger"
    /\ call.op = "ExecuteBuyOrder" /\ call.err = ""
    /\ balance = 0
C37_WitnessLedgerRejected ==
    /\ pc = "ledger"
    /\ call.op = "ExecuteBuyOrder" /\ call.err = "insufficient funds"
    /\ balance > 0

\* a dip buy has just been rejected for want of cash
C37_WitnessDipRejected ==
    /\ pc = "run"
    /\ lastOp.op = "dip" /\ lastOp.err = "insufficient funds"
    /\ balance >= 0

\* outside the tick of its initial buy, an Active signal has a HighPrice that is at
\* least the price of that buy, and more than 0
HighPriceOverBuyPrice ==
    (pc \in {"day", "run", "done"}) =>
        \A i \in DOMAIN signals :
            (signals[i].Status = StatusActive
                /\ (pc = "run" => signals[i].InitialTrade.BuyDateTime < currentDate)) =>
                /\ signals[i].HighPrice >= signals[i].InitialTrade.BuyPrice
                /\ signals[i].HighPrice > 0

\* no step lowers the HighPrice of a signal
HighPriceNeverFalls ==
    \A i \in DOMAIN signals :
        i \in DOMAIN signals' => signals'[i].HighPrice >= signals[i].HighPrice

\* C38: at the end of every tick each Active signal's HighPrice is at least its
\* InitialTrade.BuyPrice and more than 0, and it is so whenever the signal is
\* visited on a later tick, where the dip trigger divides by it; HighPrice never
\* decreases.
C38_HighPricePositive == []HighPriceOverBuyPrice /\ [][HighPriceNeverFalls]_vars

\* an Active signal is about to be visited on a tick whose price is under its
\* HighPrice, and its HighPrice is above the price of its initial buy
C38_Witness ==
    /\ pc = "run"
    /\ \E i \in order :
          /\ signals[i].Status = StatusActive
          /\ signals[i].InitialTrade.BuyDateTime < currentDate
          /\ tickerData[signals[i].Ticker] # NoQuote
          /\ tickerData[signals[i].Ticker].Price < signals[i].HighPrice
          /\ signals[i].HighPrice > signals[i].InitialTrade.BuyPrice

\* the tick of an initial buy has ended and HighPrice is the price of the buy
C38_WitnessBuyTick ==
    /\ pc = "day"
    /\ \E i \in DOMAIN signals :
          /\ signals[i].Status = StatusActive
          /\ signals[i].InitialTrade.BuyDateTime = currentDate - 1
          /\ signals[i].HighPrice = signals[i].InitialTrade.BuyPrice

\* C39 as stated: the dip price returned by detectDip is never higher than the
\* initial price, and the blended entry price
\* initial x staggerPct + dip x (1 - staggerPct) never exceeds the initial price.
C39_DipNotAboveEntry ==
    (pc = "dip" /\ replay.state = "returned") =>
        /\ replay.dipBuyPrice <= replay.initialPrice
        /\ replay.weightedBuyPrice <= replay.initialPrice * 100

\* C39, what the code does: the dip price is at most the initial price unless it
\* comes from the step "volatility spike (3% drop)", which compares a day with
\* the day before and not with the entry; the blended price exceeds the initial
\* price exactly when the dip price does.
C39_DipAboveEntryOnlyOnSpike ==
    (pc = "dip" /\ replay.state = "returned") =>
        /\ replay.dipStrategy # "volatility spike (3% drop)" =>
              replay.dipBuyPrice <= replay.initialPrice
        /\ replay.weightedBuyPrice > replay.initialPrice * 100
              <=> replay.dipBuyPrice > replay.initialPrice

\* detectDip has returned a price above the initial price: a day more than 3% under
\* the day before, both above the entry
C39_Witness ==
    /\ pc = "dip" /\ replay.state = "returned"
    /\ replay.dipStrategy = "volatility spike (3% drop)"
    /\ replay.dipBuyPrice > replay.initialPrice
    /\ replay.weightedBuyPrice > replay.initialPrice * 100

C40_WitnessHeld ==
    /\ pc = "compare" /\ replay.state = "returned"
    /\ ~ replay.result.stopped /\ ~ replay.simple.stopped
    /\ Len(replay.dailyPrices) > 1
    /\ replay.dailyPrices[Len(replay.dailyPrices)] = replay.result.highestPrice
    /\ replay.result.highestPrice > replay.initialPrice

====
